---- MODULE Spec2Model ----
(***************************************************************************)
(* A model of the block-device file system driver (driver.js) together     *)
(* with its byte codec (serializer.js), in-memory device (device.js) and   *)
(* inode record (inode.js).  The device is modelled byte for byte; every   *)
(* driver operation is one action that runs the whole JavaScript method,   *)
(* including the exceptions it throws half-way.                            *)
(***************************************************************************)
EXTENDS Integers, Sequences, FiniteSets, TLC

(***************************************************************************)
(* settings.js / constants.js.  The two files are imported by every source *)
(* file but are not part of the sources at hand; the values below are      *)
(* chosen so that inode records tile the blocks (no record straddles a     *)
(* block edge).  NAN_BLOCK_ADDRESS is the value the callers write as the   *)
(* literal 0 (create/mkdir/symlink reset singleIndirect to 0, and a        *)
(* zero-filled record must read as "no blocks"); ZERO_BLOCK_ADDRESS is a   *)
(* sentinel that survives the int32 codec and is no block of the device.   *)
(***************************************************************************)
BLOCK_SIZE == 64
BLOCK_COUNT == 224
INODE_STRAIGHT_LINKS_COUNT == 3
ADDRESS_SIZE == 4
N_SIZE == 4
INODE_INO_SIZE == 4
INODE_TYPE_SIZE == 2
INODE_REFS_SIZE == 2
INODE_SIZE_SIZE == 4
INODE_SIZE == 32
DENTRY_SIZE == 16
MAX_SYMLINK_DEPTH == 2
NAN_BLOCK_ADDRESS == 0
ZERO_BLOCK_ADDRESS == -1
ADDRESSES_IN_BLOCK == BLOCK_SIZE \div ADDRESS_SIZE

(***************************************************************************)
(* JavaScript values that are not int32 numbers.                           *)
(***************************************************************************)
JsNaN == -1000001
JsUndefined == -1000002
JsHole == -1000003

IsNum(x) == x \notin {JsNaN, JsUndefined, JsHole}

\* ToIntegerOrInfinity / ToInt32 of a non-number is 0.
ToInt(x) == IF IsNum(x) THEN x ELSE 0

\* a < b on JavaScript numbers: false as soon as one side is NaN.
JsLess(a, b) == IsNum(a) /\ IsNum(b) /\ a < b

\* a % b of JavaScript (the sign of the dividend), b > 0.
JsRem(a, b) == IF a >= 0 THEN a % b ELSE 0 - ((0 - a) % b)

\* Math.ceil(a / b) and Math.floor(a / b), b > 0.
CeilDiv(a, b) == 0 - ((0 - a) \div b)
FloorDiv(a, b) == a \div b

Min(a, b) == IF a < b THEN a ELSE b
Max(a, b) == IF a > b THEN a ELSE b

Zeros(n) == [i \in 1..n |-> 0]

\* const v = value; Body(v): the value is computed once and then named.
Bind(value, Body(_)) == CHOOSE result \in {Body(v) : v \in {value}} : TRUE

(***************************************************************************)
(* Uint8Array: a sequence of bytes.  subarray and slice clamp their bounds *)
(* (a negative bound counts from the end); set throws RangeError when the  *)
(* source does not fit.                                                    *)
(***************************************************************************)
JsClamp(i, n) == IF i < 0 THEN Max(n + i, 0) ELSE Min(i, n)

subarray(bytes, begin, end) ==
  Bind(bytes, LAMBDA array :
    LET n == Len(array)
        b == JsClamp(begin, n)
        e == JsClamp(end, n)
    IN IF e <= b THEN <<>> ELSE SubSeq(array, b + 1, e))

\* target.set(source, offset) when it fits.
SetBytes(target, source, offset) ==
  Bind(target, LAMBDA t : Bind(source, LAMBDA s :
    [i \in 1..Len(t) |->
       IF i > offset /\ i <= offset + Len(s) THEN s[i - offset] ELSE t[i]]))

SetFits(target, source, offset) == offset >= 0 /\ Len(source) + offset <= Len(target)

\* indexOf(0): the 0-based index of the first zero byte, -1 when there is none.
IndexOfZero(bytes) ==
  IF \E i \in 1..Len(bytes) : bytes[i] = 0
  THEN (CHOOSE i \in 1..Len(bytes) : bytes[i] = 0 /\ \A j \in 1..(i - 1) : bytes[j] # 0) - 1
  ELSE -1

\* new TextDecoder().decode(bytes) and new TextEncoder().encode(string).  Strings
\* are sequences of character codes.
\* UTF-8: a byte below 128 is its own character, a well-formed two-byte
\* sequence is one character, any other byte is shown as U+FFFD.
RECURSIVE TextDecode(_)
TextDecode(bytes) ==
  Bind(bytes, LAMBDA b :
    IF b = <<>> THEN <<>>
    ELSE IF b[1] < 128 THEN <<b[1]>> \o TextDecode(Tail(b))
    ELSE IF b[1] >= 194 /\ b[1] <= 223 /\ Len(b) >= 2 /\ b[2] >= 128 /\ b[2] <= 191
    THEN <<(b[1] - 192) * 64 + (b[2] - 128)>> \o TextDecode(SubSeq(b, 3, Len(b)))
    ELSE <<65533>> \o TextDecode(Tail(b)))

RECURSIVE TextEncode(_)
TextEncode(string) ==
  Bind(string, LAMBDA str :
    IF str = <<>> THEN <<>>
    ELSE (IF str[1] < 128 THEN <<str[1]>>
          ELSE IF str[1] < 2048 THEN <<192 + (str[1] \div 64), 128 + (str[1] % 64)>>
          ELSE <<224 + (str[1] \div 4096), 128 + ((str[1] \div 64) % 64), 128 + (str[1] % 64)>>)
         \o TextEncode(Tail(str)))

(***************************************************************************)
(* serializer.js                                                           *)
(***************************************************************************)
\* [value >> 24, (value << 8) >> 24, (value << 16) >> 24, (value << 24) >> 24]
\* stored into a Uint8Array: the four bytes of the two's complement of value.
serializeInt32(value) ==
  LET v == ToInt(value)
  IN << (v \div 16777216) % 256, (v \div 65536) % 256, (v \div 256) % 256, v % 256 >>

\* (bytes[0] << 24) + (bytes[1] << 16) + (bytes[2] << 8) + bytes[3]
deserializeInt32(bytes) ==
  Bind(bytes, LAMBDA b :
    IF Len(b) < 4 THEN JsNaN
    ELSE (IF b[1] >= 128 THEN b[1] - 256 ELSE b[1]) * 16777216
         + b[2] * 65536 + b[3] * 256 + b[4])

serializeInt16(value) ==
  LET v == ToInt(value)
  IN << (v \div 256) % 256, v % 256 >>

deserializeInt16(bytes) ==
  Bind(bytes, LAMBDA b : IF Len(b) < 2 THEN JsNaN ELSE b[1] * 256 + b[2])

serializeAddress(address) == serializeInt32(address)

deserializeAddress(bytes) == deserializeInt32(bytes)

serializeFileType(type) ==
  CASE type = "regular" -> <<0, 1>>
    [] type = "directory" -> <<0, 2>>
    [] type = "symlink" -> <<0, 3>>
    [] OTHER -> <<0, 0>>

deserializeFileType(bytes) ==
  Bind(bytes, LAMBDA b :
    IF Len(b) < 2 THEN "unused"
    ELSE CASE b[1] = 0 /\ b[2] = 1 -> "regular"
           [] b[1] = 0 /\ b[2] = 2 -> "directory"
           [] b[1] = 0 /\ b[2] = 3 -> "symlink"
           [] OTHER -> "unused")

\* The loop steps offset by ADDRESS_SIZE and reads at offset * ADDRESS_SIZE:
\* entry k comes from bytes [16k, 16k + 4), NaN once that is past the end.
deserializeAddresses(bytes) ==
  Bind(bytes, LAMBDA b :
    [k \in 1..CeilDiv(Len(b), ADDRESS_SIZE) |->
       deserializeAddress(subarray(b, (k - 1) * ADDRESS_SIZE * ADDRESS_SIZE,
                                   ((k - 1) * ADDRESS_SIZE + 1) * ADDRESS_SIZE))])

RECURSIVE FlatLinks(_)
\* straightLinks.flatMap(link => [...serializeAddress(link)]); holes are skipped.
FlatLinks(links) ==
  IF links = <<>> THEN <<>>
  ELSE (IF Head(links) = JsHole THEN <<>> ELSE serializeAddress(Head(links)))
       \o FlatLinks(Tail(links))

InodeFieldBytes(inode) ==
  serializeInt32(inode.ino) \o serializeFileType(inode.type)
    \o serializeInt16(inode.refs) \o serializeInt32(inode.size)
    \o FlatLinks(inode.straightLinks)
    \o serializeAddress(inode.singleIndirect) \o serializeAddress(inode.doubleIndirect)

\* buff.set([...fields], 0) into new Uint8Array(INODE_SIZE).
serializeInode(inode) ==
  SetBytes(Zeros(INODE_SIZE), InodeFieldBytes(inode), 0)

LinksOffset == INODE_INO_SIZE + INODE_TYPE_SIZE + INODE_REFS_SIZE + INODE_SIZE_SIZE

IndirectOffset == LinksOffset + ADDRESS_SIZE * INODE_STRAIGHT_LINKS_COUNT

\* doubleIndirectBytes is cut at the same offset as singleIndirectBytes.
deserializeInode(bytes) ==
  LET straightLinksBytes == subarray(bytes, LinksOffset, IndirectOffset)
  IN [ ino |-> deserializeInt32(subarray(bytes, 0, INODE_INO_SIZE)),
       type |-> deserializeFileType(subarray(bytes, INODE_INO_SIZE,
                                             INODE_INO_SIZE + INODE_TYPE_SIZE)),
       refs |-> deserializeInt16(subarray(bytes, INODE_INO_SIZE + INODE_TYPE_SIZE,
                                          INODE_INO_SIZE + INODE_TYPE_SIZE + INODE_REFS_SIZE)),
       size |-> deserializeInt32(subarray(bytes, LinksOffset - INODE_SIZE_SIZE, LinksOffset)),
       straightLinks |->
         [k \in 1..INODE_STRAIGHT_LINKS_COUNT |->
            deserializeAddress(subarray(straightLinksBytes, (k - 1) * ADDRESS_SIZE,
                                        k * ADDRESS_SIZE))],
       singleIndirect |->
         deserializeAddress(subarray(bytes, IndirectOffset, IndirectOffset + ADDRESS_SIZE)),
       doubleIndirect |->
         deserializeAddress(subarray(bytes, IndirectOffset, IndirectOffset + ADDRESS_SIZE)) ]

\* dentry.fileName.substring(0, DENTRY_SIZE - N_SIZE), then the inode number.
serializeDentry(dentry) ==
  SetBytes(SetBytes(Zeros(DENTRY_SIZE),
                    TextEncode(subarray(dentry.fileName, 0, DENTRY_SIZE - N_SIZE)), 0),
           serializeInt32(dentry.ino), DENTRY_SIZE - N_SIZE)

\* filenameBytes.subarray(0, filenameBytes.indexOf(0)): indexOf is -1 when the
\* name fills the field, and subarray(0, -1) then drops the last byte.
deserializeDentry(bytes) ==
  Bind(subarray(bytes, 0, DENTRY_SIZE - N_SIZE), LAMBDA filenameBytes :
    [ fileName |-> TextDecode(subarray(filenameBytes, 0, IndexOfZero(filenameBytes))),
      ino |-> deserializeInt32(subarray(bytes, DENTRY_SIZE - N_SIZE, Len(bytes))) ])

RECURSIVE serializeDentries(_)
serializeDentries(dentries) ==
  IF dentries = <<>> THEN <<>>
  ELSE serializeDentry(Head(dentries)) \o serializeDentries(Tail(dentries))

deserializeDentries(bytes) ==
  Bind(bytes, LAMBDA b :
    [k \in 1..CeilDiv(Len(b), DENTRY_SIZE) |->
       Bind(subarray(b, (k - 1) * DENTRY_SIZE, k * DENTRY_SIZE), LAMBDA dentryBytes :
         deserializeDentry(dentryBytes))])

(***************************************************************************)
(* device.js.  The memory is kept block by block: dev[a] is block a.       *)
(* readBlock returns a view (memory.subarray), so a negative address       *)
(* counts blocks from the end of the memory, and an address that is past   *)
(* the end, -1 or not a number yields an empty view.  A view is named by   *)
(* the block it covers, -1 for the empty view.                             *)
(***************************************************************************)
Ok(d) == [dev |-> d, err |-> ""]

Fail(d, e) == [dev |-> d, err |-> e]

readBlock(blockAddress) ==
  IF ~IsNum(blockAddress) THEN -1
  ELSE IF blockAddress >= 0
       THEN (IF blockAddress < BLOCK_COUNT THEN blockAddress ELSE -1)
       ELSE (IF blockAddress <= -2 /\ blockAddress >= 0 - BLOCK_COUNT
             THEN BLOCK_COUNT + blockAddress ELSE -1)

ViewBytes(d, view) == IF view < 0 THEN <<>> ELSE d[view]

\* memory.set(block, blockAddress * blockSize); block is at most one block long.
writeBlock(d, blockAddress, block) ==
  Bind(block, LAMBDA bytes :
    LET a == ToInt(blockAddress)
    IN IF a < 0 \/ a > BLOCK_COUNT \/ (a = BLOCK_COUNT /\ Len(bytes) > 0)
       THEN Fail(d, "RangeError")
       ELSE IF bytes = <<>> THEN Ok(d)
       ELSE Ok([d EXCEPT ![a] = SetBytes(@, bytes, 0)]))

\* const block = readBlock(a); block.set(source, offset); writeBlock(a, block):
\* the set writes through the view, the writeBlock copies the view onto itself.
ViewSetWrite(d, blockAddress, source, offset) ==
  Bind(readBlock(blockAddress), LAMBDA view :
  Bind(source, LAMBDA src :
    IF ~SetFits(ViewBytes(d, view), src, offset) THEN Fail(d, "RangeError")
    ELSE Bind(IF view < 0 THEN d ELSE [d EXCEPT ![view] = SetBytes(@, src, offset)],
              LAMBDA d1 : writeBlock(d1, blockAddress, ViewBytes(d1, view)))))

(***************************************************************************)
(* driver.js: superblock (bitmap and N field)                              *)
(***************************************************************************)
BitmapSize == CeilDiv(BLOCK_COUNT, 8)

Pow2(k) == CASE k = 0 -> 1 [] k = 1 -> 2 [] k = 2 -> 4 [] k = 3 -> 8
             [] k = 4 -> 16 [] k = 5 -> 32 [] k = 6 -> 64 [] OTHER -> 128

BitSet(byte, k) == (byte \div Pow2(k)) % 2 = 1

\* byte | (1 << k) when used, byte & ~(1 << k) otherwise.
WithBit(byte, k, used) ==
  IF used THEN (IF BitSet(byte, k) THEN byte ELSE byte + Pow2(k))
  ELSE (IF BitSet(byte, k) THEN byte - Pow2(k) ELSE byte)

\* block[bitmapByteIndex] |= 1 << bit   and   block[bitmapByteIndex] &= ~(1 << bit)
\* then writeBlock.  A block index that is not a number touches nothing; a
\* negative one makes writeBlock throw.
SetBitmapBit(d, blockIndex, used) ==
  IF ~IsNum(blockIndex) THEN Ok(d)
  ELSE LET bitmapBlockIndex == FloorDiv(blockIndex, 8 * BLOCK_SIZE)
           bitmapByteIndex == JsRem(FloorDiv(blockIndex, 8), BLOCK_SIZE)
           bitmapBitIndex == JsRem(blockIndex, 8)
           view == readBlock(bitmapBlockIndex)
       IN Bind(IF view < 0 \/ bitmapByteIndex < 0 \/ bitmapBitIndex < 0 THEN d
               ELSE [d EXCEPT ![view][bitmapByteIndex + 1] = WithBit(@, bitmapBitIndex, used)],
               LAMBDA d1 : writeBlock(d1, bitmapBlockIndex, ViewBytes(d1, view)))

_setBlockUnfree(d, blockIndex) == SetBitmapBit(d, blockIndex, TRUE)

_setBlockFree(d, blockIndex) == SetBitmapBit(d, blockIndex, FALSE)

_clearBlock(d, blockAddress) == writeBlock(d, blockAddress, Zeros(BLOCK_SIZE))

\* The bitmap bytes, gathered from the blocks that hold them.
BitmapByte(d, byteIndex) == d[byteIndex \div BLOCK_SIZE][(byteIndex % BLOCK_SIZE) + 1]

BlockBit(d, blockIndex) == BitSet(BitmapByte(d, blockIndex \div 8), blockIndex % 8)

RECURSIVE FirstClearBit(_, _)
\* for (byteIndex ...) for (bitIndex ...) if (!(byte & (1 << bitIndex))) return ...
FirstClearBit(d, byteIndex) ==
  IF byteIndex >= BitmapSize THEN JsUndefined
  ELSE Bind(BitmapByte(d, byteIndex), LAMBDA byte :
         IF \E bitIndex \in 0..7 : ~BitSet(byte, bitIndex)
         THEN byteIndex * 8
              + (CHOOSE bitIndex \in 0..7 :
                   /\ ~BitSet(byte, bitIndex)
                   /\ \A lower \in 0..(bitIndex - 1) : BitSet(byte, lower))
         ELSE FirstClearBit(d, byteIndex + 1))

\* The first clear bit, bit 0 of each byte first; undefined when every bit of
\* the ceil(BLOCK_COUNT / 8) bytes is set (the function falls off its end).
_getFreeBlockAddress(d) == FirstClearBit(d, 0)

NAddress == BitmapSize

_setN(d, n) ==
  ViewSetWrite(d, FloorDiv(NAddress, BLOCK_SIZE), serializeInt32(n), NAddress % BLOCK_SIZE)

_getN(d) ==
  Bind(ViewBytes(d, readBlock(FloorDiv(NAddress, BLOCK_SIZE))), LAMBDA block :
    deserializeInt32(subarray(block, NAddress % BLOCK_SIZE, (NAddress % BLOCK_SIZE) + N_SIZE)))

(***************************************************************************)
(* driver.js: inode table.  Both getDescriptor and _updateDescriptor take  *)
(* the block as Math.ceil(inodeAddress / BLOCK_SIZE).                      *)
(***************************************************************************)
StartAddress == BitmapSize + 4

MemorySize == BLOCK_COUNT * BLOCK_SIZE

\* An inode number whose record would lie outside the memory on either side.
InoOffDevice(ino) == ~IsNum(ino) \/ ino >= MemorySize \/ ino <= 0 - MemorySize

InodeBlockAddress(ino) == CeilDiv(StartAddress + ino * INODE_SIZE, BLOCK_SIZE)

InodeAddressInBlock(ino) == JsRem(StartAddress + ino * INODE_SIZE, BLOCK_SIZE)

getDescriptor(d, ino) ==
  Bind(IF InoOffDevice(ino) THEN <<>>
       ELSE subarray(ViewBytes(d, readBlock(InodeBlockAddress(ino))),
                     InodeAddressInBlock(ino), InodeAddressInBlock(ino) + INODE_SIZE),
       LAMBDA inodeBytes : [deserializeInode(inodeBytes) EXCEPT !.ino = ino])

_updateDescriptor(d, inode) ==
  IF InoOffDevice(inode.ino) THEN Fail(d, "RangeError")
  ELSE ViewSetWrite(d, InodeBlockAddress(inode.ino), serializeInode(inode),
                    InodeAddressInBlock(inode.ino))

\* A search that hands out the last descriptor of the table.
LastOfTable(d, ino, n) ==
  Bind(getDescriptor(d, n - 1), LAMBDA inode : [err |-> "", inode |-> inode])

RECURSIVE FirstUnused(_, _, _)
\* for (ino = from; ino < n; ino++) if (getDescriptor(ino).type == UNUSED) return it
FirstUnused(d, ino, n) ==
  IF ~JsLess(ino, n) THEN [err |-> "Error: Unused descriptor not found",
                           inode |-> getDescriptor(d, 0)]
  ELSE Bind(getDescriptor(d, ino), LAMBDA inode :
         IF inode.type = "unused" THEN [err |-> "", inode |-> inode]
         ELSE FirstUnused(d, ino + 1, n))

_getUnusedDescriptor(d) == Bind(_getN(d), LAMBDA n : FirstUnused(d, 0, n))

(***************************************************************************)
(* JavaScript arrays of numbers.                                           *)
(***************************************************************************)
ArrayGet(arr, i) ==
  IF i < 0 \/ i >= Len(arr) THEN JsUndefined
  ELSE IF arr[i + 1] = JsHole THEN JsUndefined ELSE arr[i + 1]

\* arr[i] = value, which lengthens the array (leaving holes) when i >= length.
ArrayStore(arr, i, value) ==
  IF i < 0 THEN arr
  ELSE Bind(arr, LAMBDA a :
         [k \in 1..Max(Len(a), i + 1) |->
            IF k = i + 1 THEN value ELSE IF k <= Len(a) THEN a[k] ELSE JsHole])

\* The values of k successive arr.pop() calls: the tail backwards, then undefined.
Popped(arr, k) ==
  Bind(arr, LAMBDA a :
    [i \in 1..Max(k, 0) |-> IF i <= Len(a) THEN ArrayGet(a, Len(a) - i) ELSE JsUndefined])

(***************************************************************************)
(* driver.js: the generator _getBlocks.  A generator object is a record    *)
(* holding its position; GenNext resumes it against the current device and *)
(* the current inode object, and returns the next yielded address or done. *)
(***************************************************************************)
GenStart(startBlockIndex) ==
  [phase |-> "start", blockIndex |-> startBlockIndex,
   list |-> <<>>, pos |-> 1, outer |-> <<>>, opos |-> 1]

GenDone(g) == [done |-> TRUE, value |-> JsUndefined, g |-> [g EXCEPT !.phase = "done"]]

\* The generator after it moves on, before it yields again.
GenMove(d, inode, g) ==
  LET links == Len(inode.straightLinks)
  IN CASE g.phase = "start" ->
            IF g.blockIndex < links
            THEN [g EXCEPT !.phase = "direct", !.pos = 1,
                           !.list = SubSeq(inode.straightLinks, g.blockIndex + 1, links)]
            ELSE [g EXCEPT !.phase = "afterDirect"]
       [] g.phase = "direct" -> [g EXCEPT !.phase = "afterDirect"]
       [] g.phase = "single" -> [g EXCEPT !.phase = "afterSingle"]
       [] g.phase = "inner" -> [g EXCEPT !.phase = "outer", !.opos = @ + 1]
       [] g.phase = "afterDirect" ->
            IF g.blockIndex < links + ADDRESSES_IN_BLOCK
               /\ inode.singleIndirect # NAN_BLOCK_ADDRESS
            THEN [g EXCEPT !.phase = "single", !.pos = 1,
                           !.list = deserializeAddresses(
                                      ViewBytes(d, readBlock(inode.singleIndirect)))]
            ELSE [g EXCEPT !.phase = "afterSingle"]
       [] g.phase = "afterSingle" ->
            IF g.blockIndex < links + ADDRESSES_IN_BLOCK * ADDRESSES_IN_BLOCK
               /\ inode.doubleIndirect # NAN_BLOCK_ADDRESS
            THEN [g EXCEPT !.phase = "outer", !.opos = 1,
                           !.outer = deserializeAddresses(
                                       ViewBytes(d, readBlock(inode.doubleIndirect)))]
            ELSE [g EXCEPT !.phase = "done"]
       [] g.phase = "outer" ->
            IF g.opos > Len(g.outer) \/ ArrayGet(g.outer, g.opos - 1) = NAN_BLOCK_ADDRESS
            THEN [g EXCEPT !.phase = "done"]
            ELSE [g EXCEPT !.phase = "inner", !.pos = 1,
                           !.list = deserializeAddresses(
                                      ViewBytes(d, readBlock(ArrayGet(g.outer, g.opos - 1))))]
       [] OTHER -> [g EXCEPT !.phase = "done"]

RECURSIVE GenNext(_, _, _, _)
GenNext(d, inode, g, endBlockIndex) ==
  IF g.phase = "done" THEN GenDone(g)
  ELSE IF g.phase \in {"direct", "single", "inner"} /\ g.pos <= Len(g.list)
  THEN LET blockAddress == ArrayGet(g.list, g.pos - 1)
       IN IF blockAddress = NAN_BLOCK_ADDRESS \/ g.blockIndex = endBlockIndex
          THEN GenDone(g)
          ELSE [done |-> FALSE, value |-> blockAddress,
                g |-> [g EXCEPT !.pos = @ + 1, !.blockIndex = @ + 1]]
  ELSE Bind(GenMove(d, inode, g), LAMBDA g1 : GenNext(d, inode, g1, endBlockIndex))

RECURSIVE Collect(_, _, _, _)
Collect(d, inode, g, endBlockIndex) ==
  Bind(GenNext(d, inode, g, endBlockIndex), LAMBDA n :
    IF n.done THEN <<>> ELSE <<n.value>> \o Collect(d, inode, n.g, endBlockIndex))

\* [...this._getBlocks(inode)]
_getBlocks(d, inode) == Collect(d, inode, GenStart(0), -1)

(***************************************************************************)
(* driver.js: extents.  An operator that the code writes as a method       *)
(* mutating its inode argument returns the device, the error thrown ("" if *)
(* none) and the inode object as the method leaves it.                     *)
(***************************************************************************)
Res(d, e, inode) == [dev |-> d, err |-> e, inode |-> inode]

WithInode(r, inode) == Bind(r, LAMBDA r0 : [dev |-> r0.dev, err |-> r0.err, inode |-> inode])

_setDescriptorBlock(d, inode, blockIndex, blockAddress) ==
  IF blockIndex < INODE_STRAIGHT_LINKS_COUNT
  THEN Bind([inode EXCEPT !.straightLinks = ArrayStore(@, blockIndex, blockAddress)],
            LAMBDA inode1 : WithInode(_updateDescriptor(d, inode1), inode1))
  ELSE IF blockIndex < INODE_STRAIGHT_LINKS_COUNT + ADDRESSES_IN_BLOCK
  THEN \* serializeAddress of the whole array: ToInt32 of an array is 0
       WithInode(writeBlock(d, inode.singleIndirect, serializeAddress(JsNaN)), inode)
  ELSE LET singleIndirectIndex ==
             FloorDiv(blockIndex - INODE_STRAIGHT_LINKS_COUNT - ADDRESSES_IN_BLOCK,
                      ADDRESSES_IN_BLOCK)
       IN Bind(ArrayGet(deserializeAddresses(ViewBytes(d, readBlock(inode.doubleIndirect))),
                        singleIndirectIndex),
               LAMBDA singleIndirectAddress :
                 WithInode(writeBlock(d, singleIndirectAddress, serializeAddress(JsNaN)),
                           inode))

\* inode.x = _getFreeBlockAddress(); _setBlockUnfree(inode.x); _clearBlock(inode.x)
AllocateIndirect(d) ==
  Bind(_getFreeBlockAddress(d), LAMBDA address :
  Bind(_setBlockUnfree(d, address), LAMBDA r1 :
  Bind(IF r1.err = "" THEN _clearBlock(r1.dev, address) ELSE r1, LAMBDA r2 :
    [dev |-> r2.dev, err |-> r2.err, address |-> address])))

RECURSIVE FillSlots(_, _, _)
\* view.set(serializeAddress(ZERO_BLOCK_ADDRESS), offset) for count successive slots.
FillSlots(bytes, firstSlot, count) ==
  IF count <= 0 THEN bytes
  ELSE Bind(SetBytes(bytes, serializeAddress(ZERO_BLOCK_ADDRESS), firstSlot * ADDRESS_SIZE),
            LAMBDA bytes1 : FillSlots(bytes1, firstSlot + 1, count - 1))

RECURSIVE StoreLinks(_, _, _, _)
\* links[first], links[first + 1], ... = value, count times.
StoreLinks(links, first, count, value) ==
  IF count <= 0 THEN links
  ELSE Bind(ArrayStore(links, first, value),
            LAMBDA links1 : StoreLinks(links1, first + 1, count - 1, value))

\* The double-indirect part of _appendBlockToINode, entered with blockExists
\* blocks in place and addresses left to append.
AppendDouble(d, inode, blockExists) ==
  Bind(IF inode.doubleIndirect = NAN_BLOCK_ADDRESS THEN AllocateIndirect(d)
       ELSE [dev |-> d, err |-> "", address |-> inode.doubleIndirect], LAMBDA a :
  Bind([inode EXCEPT !.doubleIndirect = a.address], LAMBDA inode1 :
    IF a.err # "" THEN Res(a.dev, a.err, inode1)
    ELSE IF blockExists < INODE_STRAIGHT_LINKS_COUNT + ADDRESSES_IN_BLOCK
                            + ADDRESSES_IN_BLOCK * ADDRESSES_IN_BLOCK
    THEN \* readBlock(singleIndirectAddresss): the name is not declared
         Res(a.dev, "ReferenceError", inode1)
    ELSE Bind(writeBlock(a.dev, inode1.doubleIndirect,
                         ViewBytes(a.dev, readBlock(inode1.doubleIndirect))), LAMBDA w :
         Bind(IF w.err = "" THEN _updateDescriptor(w.dev, inode1) ELSE w, LAMBDA u :
           Res(u.dev, IF u.err = "" THEN "Error: Not enough double indirect" ELSE u.err,
               inode1)))))

\* The single-indirect part, entered the same way.
AppendSingle(d, inode, blockExists, count) ==
  Bind(IF inode.singleIndirect = NAN_BLOCK_ADDRESS THEN AllocateIndirect(d)
       ELSE [dev |-> d, err |-> "", address |-> inode.singleIndirect], LAMBDA a :
  Bind([inode EXCEPT !.singleIndirect = a.address], LAMBDA inode1 :
    LET view == readBlock(inode1.singleIndirect)
        k == IF blockExists < INODE_STRAIGHT_LINKS_COUNT + ADDRESSES_IN_BLOCK
             THEN Min(count, INODE_STRAIGHT_LINKS_COUNT + ADDRESSES_IN_BLOCK - blockExists)
             ELSE 0
    IN IF a.err # "" THEN Res(a.dev, a.err, inode1)
       ELSE IF k > 0 /\ view < 0 THEN Res(a.dev, "RangeError", inode1)
       ELSE
       Bind(IF k > 0
            THEN [a.dev EXCEPT ![view] =
                    FillSlots(@, blockExists - INODE_STRAIGHT_LINKS_COUNT, k)]
            ELSE a.dev, LAMBDA d1 :
       Bind(writeBlock(d1, inode1.singleIndirect, ViewBytes(d1, view)), LAMBDA w :
         IF w.err # "" THEN Res(w.dev, w.err, inode1)
         ELSE IF k > 0 /\ count = k THEN WithInode(_updateDescriptor(w.dev, inode1), inode1)
         ELSE AppendDouble(w.dev, inode1, blockExists + k)))))

\* blockAddreses is a list of count ZERO_BLOCK_ADDRESS values.
_appendBlockToINode(d, inode, count) ==
  IF count = 0 THEN Res(d, "", inode)
  ELSE IF ~IsNum(inode.size) THEN Res(d, "ModelAbort", inode)
  ELSE
  LET blockExists == CeilDiv(inode.size, BLOCK_SIZE)
      k == IF blockExists < INODE_STRAIGHT_LINKS_COUNT
           THEN Min(count, INODE_STRAIGHT_LINKS_COUNT - blockExists) ELSE 0
  IN Bind([inode EXCEPT !.straightLinks = StoreLinks(@, blockExists, k, ZERO_BLOCK_ADDRESS)],
          LAMBDA inode1 :
            IF k > 0 /\ count = k THEN WithInode(_updateDescriptor(d, inode1), inode1)
            ELSE AppendSingle(d, inode1, blockExists + k, count - k))

_increaseINode(d, inode, size) ==
  IF ~IsNum(inode.size) \/ ~IsNum(size) THEN Res(d, "ModelAbort", inode)
  ELSE
  Bind(_appendBlockToINode(d, inode,
                           Max(CeilDiv(size, BLOCK_SIZE) - CeilDiv(inode.size, BLOCK_SIZE), 0)),
       LAMBDA r :
         IF r.err # "" THEN r
         ELSE Bind([r.inode EXCEPT !.size = size], LAMBDA updatedINode :
                WithInode(_updateDescriptor(r.dev, updatedINode), r.inode)))

RECURSIVE FreeAll(_, _)
\* _setBlockFree for each address in turn, stopping at the first one that throws.
FreeAll(d, addresses) ==
  IF addresses = <<>> THEN Ok(d)
  ELSE Bind(_setBlockFree(d, Head(addresses)), LAMBDA r :
         IF r.err # "" THEN r
         ELSE Bind(Tail(addresses), LAMBDA rest : FreeAll(r.dev, rest)))

\* The part of _removeLastBlocksFromINode after the data blocks are freed,
\* when doubleIndirect is set: it ends in serializeAddresses, which calls
\* Uint8Array without new.
RemoveDouble(d, inode, blockExists, removeBlocksCount) ==
  LET singleIndirectCount ==
        CeilDiv(blockExists - INODE_STRAIGHT_LINKS_COUNT - ADDRESSES_IN_BLOCK,
                ADDRESSES_IN_BLOCK)
      singleIndirectEnough ==
        Max(0, CeilDiv(blockExists - removeBlocksCount - INODE_STRAIGHT_LINKS_COUNT
                         - ADDRESSES_IN_BLOCK, ADDRESSES_IN_BLOCK))
      needToRemove == singleIndirectCount - singleIndirectEnough
  IN Bind(deserializeAddresses(subarray(ViewBytes(d, readBlock(inode.doubleIndirect)),
                                        0, singleIndirectCount * ADDRESS_SIZE)),
          LAMBDA addresses :
     Bind(FreeAll(d, Popped(addresses, needToRemove)), LAMBDA f :
       Res(f.dev, IF f.err # "" THEN f.err ELSE "TypeError", inode)))

\* The single-indirect and direct parts.  copyWithin(buff, ...) takes buff as
\* a position, so buff stays zero and the zero block is written.
RemoveSingleDirect(d, inode, blockExists, removeBlocksCount) ==
  LET enoughBlockInSingleIndirect ==
        Min(Max(0, blockExists - removeBlocksCount - INODE_STRAIGHT_LINKS_COUNT),
            ADDRESSES_IN_BLOCK)
      hasSingle == inode.singleIndirect # NAN_BLOCK_ADDRESS
  IN Bind(IF hasSingle THEN writeBlock(d, inode.singleIndirect, Zeros(BLOCK_SIZE)) ELSE Ok(d),
          LAMBDA w :
     Bind(IF hasSingle /\ enoughBlockInSingleIndirect = 0
          THEN [inode EXCEPT !.singleIndirect = NAN_BLOCK_ADDRESS] ELSE inode,
          LAMBDA inode1 :
     Bind(IF w.err = "" /\ hasSingle /\ enoughBlockInSingleIndirect = 0
          THEN _updateDescriptor(w.dev, inode1) ELSE w,
          LAMBDA u :
       IF w.err # "" THEN Res(w.dev, w.err, inode)
       ELSE IF u.err # "" THEN Res(u.dev, u.err, inode1)
       ELSE IF blockExists - removeBlocksCount < INODE_STRAIGHT_LINKS_COUNT
       THEN Bind([inode1 EXCEPT !.straightLinks =
                    StoreLinks(@, blockExists - removeBlocksCount,
                               INODE_STRAIGHT_LINKS_COUNT - (blockExists - removeBlocksCount),
                               NAN_BLOCK_ADDRESS)],
                 LAMBDA inode2 : WithInode(_updateDescriptor(u.dev, inode2), inode2))
       ELSE Res(u.dev, "", inode1))))

_removeLastBlocksFromINode(d, inode, removeBlocksCount) ==
  LET blockExists == CeilDiv(inode.size, BLOCK_SIZE)
  IN Bind(_getBlocks(d, inode), LAMBDA blockAddresses :
     Bind(FreeAll(d, Popped(blockAddresses, removeBlocksCount)), LAMBDA f :
       IF f.err # "" THEN WithInode(f, inode)
       ELSE IF inode.doubleIndirect # NAN_BLOCK_ADDRESS
       THEN RemoveDouble(f.dev, inode, blockExists, removeBlocksCount)
       ELSE RemoveSingleDirect(f.dev, inode, blockExists, removeBlocksCount)))

_descreaseINode(d, inode, size) ==
  IF ~IsNum(inode.size) \/ ~IsNum(size) THEN Res(d, "ModelAbort", inode)
  ELSE
  Bind(_removeLastBlocksFromINode(d, inode,
         CeilDiv(inode.size, BLOCK_SIZE) - CeilDiv(size, BLOCK_SIZE)), LAMBDA r :
    IF r.err # "" THEN r
    ELSE
    Bind(_getBlocks(r.dev, r.inode), LAMBDA blockAddresses :
    Bind([r.inode EXCEPT !.size = size], LAMBDA inode1 :
      LET lastBlockByteCount == JsRem(size, BLOCK_SIZE)
      IN IF blockAddresses = <<>> THEN WithInode(_updateDescriptor(r.dev, inode1), inode1)
         ELSE Bind(IF lastBlockByteCount # 0
                   THEN ViewSetWrite(r.dev, blockAddresses[Len(blockAddresses)],
                                     Zeros(BLOCK_SIZE - lastBlockByteCount),
                                     lastBlockByteCount)
                   ELSE Ok(r.dev), LAMBDA w :
                IF w.err # "" THEN WithInode(w, r.inode)
                ELSE WithInode(_updateDescriptor(w.dev, inode1), inode1)))))

_truncate(d, inode, size) ==
  IF JsLess(inode.size, size) THEN _increaseINode(d, inode, size)
  ELSE _descreaseINode(d, inode, size)

\* The body of the for-of loop of _write for one yielded address.
WriteTurn(d, inode, value, offset, buffer, writenBytes, blockIndexInINode) ==
  LET hole == value = ZERO_BLOCK_ADDRESS
      offsetInBlock == JsRem(offset, BLOCK_SIZE)
      writeBytesInBlock == Min(BLOCK_SIZE - offsetInBlock, Len(buffer) - writenBytes)
  IN Bind(IF hole THEN _getFreeBlockAddress(d) ELSE value, LAMBDA blockAddress :
     Bind(IF hole THEN _setBlockUnfree(d, blockAddress) ELSE Ok(d), LAMBDA r1 :
     Bind(IF hole /\ r1.err = "" THEN _clearBlock(r1.dev, blockAddress) ELSE r1, LAMBDA r2 :
     Bind(IF hole /\ r2.err = ""
          THEN _setDescriptorBlock(r2.dev, inode, blockIndexInINode, blockAddress)
          ELSE WithInode(r2, inode), LAMBDA r3 :
       IF r3.err # "" THEN r3
       ELSE WithInode(ViewSetWrite(r3.dev, blockAddress,
                                   subarray(buffer, writenBytes, writenBytes + writeBytesInBlock),
                                   offsetInBlock),
                      r3.inode)))))

RECURSIVE WriteLoop(_, _, _, _, _, _, _, _)
WriteLoop(d, inode, g, endBlockIndex, offset, buffer, writenBytes, blockIndexInINode) ==
  Bind(GenNext(d, inode, g, endBlockIndex), LAMBDA n :
    IF n.done THEN Res(d, "", inode)
    ELSE
    Bind(WriteTurn(d, inode, n.value, offset, buffer, writenBytes, blockIndexInINode),
         LAMBDA r :
    Bind(writenBytes + Min(BLOCK_SIZE - JsRem(offset, BLOCK_SIZE), Len(buffer) - writenBytes),
         LAMBDA written :
    Bind(offset + written, LAMBDA offset1 :
      IF r.err # "" THEN r
      ELSE WriteLoop(r.dev, r.inode, n.g, endBlockIndex, offset1, buffer, written,
                     blockIndexInINode + 1)))))

\* A _write that does not compare the end of the buffer with the size.
WriteUnchecked(d, inode, offset, buffer) ==
  WriteLoop(d, inode, GenStart(FloorDiv(offset, BLOCK_SIZE)),
            FloorDiv(offset + Len(buffer), BLOCK_SIZE) + 1, offset, buffer, 0,
            FloorDiv(offset, BLOCK_SIZE))

_write(d, inode, offset, buffer) ==
  IF JsLess(inode.size, offset + Len(buffer)) THEN Res(d, "OutOfBounds", inode)
  ELSE WriteLoop(d, inode, GenStart(FloorDiv(offset, BLOCK_SIZE)),
                 FloorDiv(offset + Len(buffer), BLOCK_SIZE) + 1, offset, buffer, 0,
                 FloorDiv(offset, BLOCK_SIZE))

RECURSIVE ReadLoop(_, _, _, _, _, _, _, _)
ReadLoop(d, inode, g, endBlockIndex, offset, size, readBytes, buffer) ==
  Bind(GenNext(d, inode, g, endBlockIndex), LAMBDA n :
    IF n.done THEN buffer
    ELSE
    LET offsetInBlock == JsRem(offset, BLOCK_SIZE)
        readBytesInBlock == Min(BLOCK_SIZE - offsetInBlock, size - readBytes)
    IN Bind(IF n.value = ZERO_BLOCK_ADDRESS THEN Zeros(BLOCK_SIZE)
            ELSE ViewBytes(d, readBlock(n.value)), LAMBDA block :
       Bind(SetBytes(buffer, subarray(block, offsetInBlock, offsetInBlock + readBytesInBlock),
                     readBytes), LAMBDA buffer1 :
       Bind(readBytes + readBytesInBlock, LAMBDA read1 :
       Bind(offset + read1, LAMBDA offset1 :
         ReadLoop(d, inode, n.g, endBlockIndex, offset1, size, read1, buffer1))))))

\* new Uint8Array(size) throws on a negative size and is empty for NaN; with
\* an empty buffer every buffer.set in the loop is of an empty slice.
_read(d, inode, offset, size) ==
  IF IsNum(size) /\ JsLess(inode.size, offset + size)
  THEN [err |-> "OutOfBounds", data |-> <<>>]
  ELSE IF ~IsNum(size) THEN [err |-> "", data |-> <<>>]
  ELSE IF size < 0 THEN [err |-> "RangeError", data |-> <<>>]
  ELSE [err |-> "",
        data |-> ReadLoop(d, inode, GenStart(FloorDiv(offset, BLOCK_SIZE)),
                          FloorDiv(offset + size, BLOCK_SIZE) + 1, offset, size, 0, Zeros(size))]

(***************************************************************************)
(* driver.js: paths                                                        *)
(***************************************************************************)
Slash == 47
Dot == 46

\* filePath.lastIndexOf("/") + 1
LastSlash(filePath) ==
  IF \E i \in 1..Len(filePath) : filePath[i] = Slash
  THEN CHOOSE i \in 1..Len(filePath) :
         filePath[i] = Slash /\ \A j \in (i + 1)..Len(filePath) : filePath[j] # Slash
  ELSE 0

_getFileName(filePath) == SubSeq(filePath, LastSlash(filePath) + 1, Len(filePath))

_getDirPath(filePath) == SubSeq(filePath, 1, LastSlash(filePath) - 1)

JsAdd(a, b) == IF IsNum(a) /\ IsNum(b) THEN a + b ELSE JsNaN

(***************************************************************************)
(* driver.js: directories                                                  *)
(***************************************************************************)
_readDirectory(d, dir) ==
  Bind(_read(d, dir, 0, dir.size), LAMBDA r :
    [err |-> r.err, dentries |-> deserializeDentries(r.data)])

\* dentries.find(d => d.fileName == filename): its 1-based position, 0 if none.
FindName(dentries, filename) ==
  IF \E k \in 1..Len(dentries) : dentries[k].fileName = filename
  THEN CHOOSE k \in 1..Len(dentries) :
         dentries[k].fileName = filename
         /\ \A j \in 1..(k - 1) : dentries[j].fileName # filename
  ELSE 0

Dentry(fileName, ino) == [fileName |-> fileName, ino |-> ino]

\* The part of _addLink after the name is found to be new.  same is TRUE
\* when the caller passes one object as both dir and file.
AddDentry(d, dir, file, filename, same) ==
  Bind(serializeDentry(Dentry(filename, IF same THEN dir.ino ELSE file.ino)),
       LAMBDA newDentryData :
  Bind(_truncate(d, dir, JsAdd(dir.size, DENTRY_SIZE)), LAMBDA t :
    IF t.err # "" THEN [dev |-> t.dev, err |-> t.err, dir |-> t.inode, file |-> file]
    ELSE
    Bind([t.inode EXCEPT !.size = JsAdd(@, DENTRY_SIZE)], LAMBDA dir1 :
    Bind(_write(t.dev, dir1, dir1.size - DENTRY_SIZE, newDentryData), LAMBDA w :
      IF w.err # "" THEN [dev |-> w.dev, err |-> w.err, dir |-> w.inode, file |-> file]
      ELSE
      Bind(IF same THEN [w.inode EXCEPT !.refs = JsAdd(@, 1)]
           ELSE [file EXCEPT !.refs = JsAdd(@, 1)], LAMBDA file1 :
      Bind(_updateDescriptor(w.dev, file1), LAMBDA u :
        [dev |-> u.dev, err |-> u.err,
         dir |-> IF same THEN file1 ELSE w.inode, file |-> file1]))))))

_addLink(d, dir, file, filename, same) ==
  Bind(_readDirectory(d, dir), LAMBDA rd :
    IF rd.err # "" THEN [dev |-> d, err |-> rd.err, dir |-> dir, file |-> file]
    ELSE IF FindName(rd.dentries, filename) # 0
    THEN [dev |-> d, err |-> "FileAlreadyExist", dir |-> dir, file |-> file]
    ELSE AddDentry(d, dir, file, filename, same))

\* A _removeOrUpdate that stores the descriptor and never releases it.
UpdateOnly(d, inode) == WithInode(_updateDescriptor(d, inode), inode)

_removeOrUpdate(d, inode) ==
  IF inode.refs = 0
  THEN Bind(_truncate(d, inode, 0), LAMBDA t :
         IF t.err # "" THEN t
         ELSE Bind([t.inode EXCEPT !.type = "unused", !.size = 0,
                                   !.singleIndirect = NAN_BLOCK_ADDRESS,
                                   !.doubleIndirect = NAN_BLOCK_ADDRESS,
                                   !.straightLinks =
                                      [k \in 1..INODE_STRAIGHT_LINKS_COUNT |->
                                         NAN_BLOCK_ADDRESS]],
                   LAMBDA inode1 : WithInode(_updateDescriptor(t.dev, inode1), inode1)))
  ELSE WithInode(_updateDescriptor(d, inode), inode)

\* dentries.filter(d => d.fileName != filename)
OtherNames(dentries, filename) ==
  SelectSeq(dentries, LAMBDA e : e.fileName # filename)

\* An _unlink that rewrites the directory and leaves the file's refs alone.
KeepRef(d, removeDentryIno) == Ok(d)

\* The part of _unlink after the directory is rewritten: removeDentry.ino is
\* a TypeError when no entry had the name.
DropRef(d, removeDentryIno) ==
  Bind(getDescriptor(d, removeDentryIno), LAMBDA file :
  Bind([file EXCEPT !.refs = JsAdd(@, -1)], LAMBDA file1 :
  Bind(_removeOrUpdate(d, file1), LAMBDA r : [dev |-> r.dev, err |-> r.err])))

_unlink(d, dir, filename) ==
  Bind(_readDirectory(d, dir), LAMBDA rd :
    IF rd.err # "" THEN Fail(d, rd.err)
    ELSE
    Bind(FindName(rd.dentries, filename), LAMBDA found :
    Bind(serializeDentries(OtherNames(rd.dentries, filename)), LAMBDA newDentriesData :
    Bind(_write(d, dir, 0, newDentriesData), LAMBDA w :
      IF w.err # "" THEN Fail(w.dev, w.err)
      ELSE
      Bind(_truncate(w.dev, w.inode, JsAdd(w.inode.size, 0 - DENTRY_SIZE)), LAMBDA t :
        IF t.err # "" THEN Fail(t.dev, t.err)
        ELSE IF found = 0 THEN Fail(t.dev, "TypeError")
        ELSE DropRef(t.dev, rd.dentries[found].ino))))))

(***************************************************************************)
(* driver.js: path resolution.  depth is the counter object shared by the  *)
(* whole resolution; the result carries its value on return.               *)
(***************************************************************************)
Found(inode, depth) == [err |-> "", inode |-> inode, depth |-> depth]

Thrown(e, inode, depth) == [err |-> e, inode |-> inode, depth |-> depth]

RECURSIVE LookUp(_, _, _, _, _)
\* A resolution that reads the body of a link from the current directory of
\* the root scenario, inode 0, whatever directory holds the link.
EnterFromRoot(d, ino, resolveSymlink, dir, depth) ==
  Bind(getDescriptor(d, ino), LAMBDA file :
    IF file.type # "symlink" \/ ~resolveSymlink THEN Found(file, depth)
    ELSE IF depth < MAX_SYMLINK_DEPTH
    THEN Bind(_read(d, file, 0, file.size), LAMBDA linkPathBytes :
           IF linkPathBytes.err # "" THEN Thrown(linkPathBytes.err, file, depth)
           ELSE Bind(TextDecode(linkPathBytes.data), LAMBDA linkPath :
                  Bind(getDescriptor(d, 0), LAMBDA root :
                    LookUp(d, linkPath, TRUE, depth + 1, root))))
    ELSE Thrown("Error: Symlink max depth overlapce", file, depth))

\* A resolution that follows one link more than MAX_SYMLINK_DEPTH.
EnterOneMore(d, ino, resolveSymlink, dir, depth) ==
  Bind(getDescriptor(d, ino), LAMBDA file :
    IF file.type # "symlink" \/ ~resolveSymlink THEN Found(file, depth)
    ELSE IF depth <= MAX_SYMLINK_DEPTH
    THEN Bind(_read(d, file, 0, file.size), LAMBDA linkPathBytes :
           IF linkPathBytes.err # "" THEN Thrown(linkPathBytes.err, file, depth)
           ELSE Bind(TextDecode(linkPathBytes.data), LAMBDA linkPath :
                  LookUp(d, linkPath, TRUE, depth + 1, dir)))
    ELSE Thrown("Error: Symlink max depth overlapce", file, depth))

\* The body of the for-of loop of lookUp on the entry that has the name.
Enter(d, ino, resolveSymlink, dir, depth) ==
  Bind(getDescriptor(d, ino), LAMBDA file :
    IF file.type # "symlink" \/ ~resolveSymlink THEN Found(file, depth)
    ELSE IF depth < MAX_SYMLINK_DEPTH
    THEN Bind(_read(d, file, 0, file.size), LAMBDA linkPathBytes :
           IF linkPathBytes.err # "" THEN Thrown(linkPathBytes.err, file, depth)
           ELSE Bind(TextDecode(linkPathBytes.data), LAMBDA linkPath :
                  LookUp(d, linkPath, TRUE, depth + 1, dir)))
    ELSE Thrown("Error: Symlink max depth overlapce", file, depth))

LookUp(d, filePath, resolveSymlink, depth, baseDirectory) ==
  IF filePath = <<Slash>> THEN Bind(getDescriptor(d, 0), LAMBDA root : Found(root, depth))
  ELSE IF filePath = <<>> THEN Found(baseDirectory, depth)
  ELSE
  Bind(_getFileName(filePath), LAMBDA filename :
  Bind(_getDirPath(filePath), LAMBDA dirPath :
  Bind(IF dirPath = <<>> THEN Found(baseDirectory, depth)
       ELSE LookUp(d, dirPath, TRUE, depth, baseDirectory), LAMBDA dr :
    IF dr.err # "" THEN dr
    ELSE
    Bind(_readDirectory(d, dr.inode), LAMBDA rd :
      IF rd.err # "" THEN Thrown(rd.err, dr.inode, dr.depth)
      ELSE Bind(FindName(rd.dentries, filename), LAMBDA found :
             IF found = 0 THEN Thrown("InvalidPath", dr.inode, dr.depth)
             ELSE Enter(d, rd.dentries[found].ino, resolveSymlink, dr.inode, dr.depth))))))

\* lookUp(filePath) as the API methods call it.
lookUp(d, cwd, filePath) ==
  Bind(getDescriptor(d, cwd), LAMBDA baseDirectory :
    LookUp(d, filePath, FALSE, 0, baseDirectory))

(***************************************************************************)
(* driver.js: the API.  Every operator takes the device memory d (and the  *)
(* driver's cwdIno or openFiles where the method reads them) and returns   *)
(* the memory the call leaves behind together with err, the class of the   *)
(* exception that ended the call ("" when it returned).                    *)
(***************************************************************************)
\* A mkfs that leaves the metadata blocks as it finds them.
KeepBlocks(d, from, to) == Ok(d)

RECURSIVE WriteZeroBlocks(_, _, _)
WriteZeroBlocks(d, from, to) ==
  IF from >= to THEN Ok(d)
  ELSE Bind(writeBlock(d, from, Zeros(BLOCK_SIZE)), LAMBDA w :
         IF w.err # "" THEN w ELSE WriteZeroBlocks(w.dev, from + 1, to))

RECURSIVE SetUnfreeBlocks(_, _, _)
SetUnfreeBlocks(d, from, to) ==
  IF from >= to THEN Ok(d)
  ELSE Bind(_setBlockUnfree(d, from), LAMBDA w :
         IF w.err # "" THEN w ELSE SetUnfreeBlocks(w.dev, from + 1, to))

\* new INode(0, FileType.DIRECTORY, 0, 0, [], NAN_BLOCK_ADDRESS, NAN_BLOCK_ADDRESS)
RootINode ==
  [ino |-> 0, type |-> "directory", size |-> 0, refs |-> 0,
   straightLinks |-> <<>>, singleIndirect |-> NAN_BLOCK_ADDRESS,
   doubleIndirect |-> NAN_BLOCK_ADDRESS]

mkfs(d, n) ==
  IF BitmapSize + 4 + n * INODE_SIZE < 0 THEN Fail(d, "RangeError")
  ELSE
  Bind(CeilDiv(BitmapSize + 4 + n * INODE_SIZE, BLOCK_SIZE), LAMBDA unfreeBlocks :
  Bind(WriteZeroBlocks(d, 0, unfreeBlocks), LAMBDA z :
    IF z.err # "" THEN z
    ELSE
    Bind(SetUnfreeBlocks(z.dev, 0, unfreeBlocks), LAMBDA b :
      IF b.err # "" THEN b
      ELSE
      Bind(_setN(b.dev, n), LAMBDA s :
        IF s.err # "" THEN s
        ELSE
        Bind(_updateDescriptor(s.dev, RootINode), LAMBDA u :
          IF u.err # "" THEN u
          ELSE
          Bind(_addLink(u.dev, RootINode, RootINode, <<Dot>>, TRUE), LAMBDA a1 :
            IF a1.err # "" THEN Fail(a1.dev, a1.err)
            ELSE
            Bind(_addLink(a1.dev, a1.dir, a1.dir, <<Dot, Dot>>, TRUE), LAMBDA a2 :
              [dev |-> a2.dev, err |-> a2.err])))))))

\* file.type = ...; file.refs = 0; file.size = 0; file.singleIndirect = 0;
\* file.straightLinks = [] on the descriptor that _getUnusedDescriptor returned.
Fresh(inode, type) ==
  [inode EXCEPT !.type = type, !.refs = 0, !.size = 0, !.singleIndirect = 0,
                !.straightLinks = <<>>]

create(d, cwd, filePath) ==
  Bind(lookUp(d, cwd, _getDirPath(filePath)), LAMBDA dir :
    IF dir.err # "" THEN Fail(d, dir.err)
    ELSE IF dir.inode.type # "directory" THEN Fail(d, "InvalidPath")
    ELSE
    Bind(_getUnusedDescriptor(d), LAMBDA g :
      IF g.err # "" THEN Fail(d, g.err)
      ELSE
      Bind(Fresh(g.inode, "regular"), LAMBDA file :
      Bind(_updateDescriptor(d, file), LAMBDA u :
        IF u.err # "" THEN u
        ELSE
        Bind(_addLink(u.dev, dir.inode, file, _getFileName(filePath), FALSE), LAMBDA a :
          [dev |-> a.dev, err |-> a.err])))))

link(d, cwd, filePath1, filePath2) ==
  Bind(lookUp(d, cwd, filePath1), LAMBDA file :
    IF file.err # "" THEN Fail(d, file.err)
    ELSE IF file.inode.type # "regular" THEN Fail(d, "InvalidPath")
    ELSE
    Bind(lookUp(d, cwd, _getDirPath(filePath2)), LAMBDA dir :
      IF dir.err # "" THEN Fail(d, dir.err)
      ELSE
      Bind(_addLink(d, dir.inode, file.inode, _getFileName(filePath2), FALSE),
           LAMBDA a :
        [dev |-> a.dev, err |-> a.err])))

unlink(d, cwd, filePath) ==
  Bind(lookUp(d, cwd, filePath), LAMBDA file :
    IF file.err # "" THEN Fail(d, file.err)
    ELSE IF file.inode.type = "directory" THEN Fail(d, "InvalidPath")
    ELSE
    Bind(lookUp(d, cwd, _getDirPath(filePath)), LAMBDA dir :
      IF dir.err # "" THEN Fail(d, dir.err)
      ELSE _unlink(d, dir.inode, _getFileName(filePath))))

\* A truncate that takes the file whatever its type is.
TruncateAnyType(d, cwd, filePath, size) ==
  Bind(lookUp(d, cwd, filePath), LAMBDA file :
    IF file.err # "" THEN Fail(d, file.err)
    ELSE Bind(_truncate(d, file.inode, size), LAMBDA t :
           [dev |-> t.dev, err |-> t.err]))

truncate(d, cwd, filePath, size) ==
  Bind(lookUp(d, cwd, filePath), LAMBDA file :
    IF file.err # "" THEN Fail(d, file.err)
    ELSE IF file.inode.type # "regular" THEN Fail(d, "InvalidPath")
    ELSE Bind(_truncate(d, file.inode, size), LAMBDA t :
           [dev |-> t.dev, err |-> t.err]))

\* A catch block that throws the error again and leaves the descriptor as
\* _updateDescriptor stored it.
Rethrown(d, e, inode) == Fail(d, e)

\* The catch block of mkdir and of symlink: _removeOrUpdate(inode) when the
\* error is FileAlreadyExist, then the error is thrown again.
Caught(d, e, inode) ==
  IF e = "FileAlreadyExist"
  THEN Bind(_removeOrUpdate(d, inode), LAMBDA r :
         Fail(r.dev, IF r.err # "" THEN r.err ELSE e))
  ELSE Fail(d, e)

\* The three _addLink calls of mkdir.
MkdirLinks(d, parentDir, newDir, dirName) ==
  Bind(_addLink(d, parentDir, newDir, dirName, FALSE), LAMBDA a1 :
    IF a1.err # "" THEN Caught(a1.dev, a1.err, [a1.file EXCEPT !.refs = 0])
    ELSE
    Bind(_addLink(a1.dev, a1.file, a1.file, <<Dot>>, TRUE), LAMBDA a2 :
      IF a2.err # "" THEN Caught(a2.dev, a2.err, [a2.file EXCEPT !.refs = 0])
      ELSE
      Bind(_addLink(a2.dev, a2.dir, a1.dir, <<Dot, Dot>>, FALSE), LAMBDA a3 :
        IF a3.err # "" THEN Caught(a3.dev, a3.err, [a3.dir EXCEPT !.refs = 0])
        ELSE Ok(a3.dev))))

mkdir(d, cwd, dirPath) ==
  Bind(lookUp(d, cwd, _getDirPath(dirPath)), LAMBDA parentDir :
    IF parentDir.err # "" THEN Fail(d, parentDir.err)
    ELSE IF parentDir.inode.type # "directory" THEN Fail(d, "InvalidPath")
    ELSE
    Bind(_getUnusedDescriptor(d), LAMBDA g :
      IF g.err # "" THEN Fail(d, g.err)
      ELSE
      Bind(Fresh(g.inode, "directory"), LAMBDA newDir :
      Bind(_updateDescriptor(d, newDir), LAMBDA u :
        IF u.err # "" THEN u
        ELSE MkdirLinks(u.dev, parentDir.inode, newDir, _getFileName(dirPath))))))

rmdir(d, cwd, dirPath) ==
  Bind(lookUp(d, cwd, dirPath), LAMBDA dir :
    IF dir.err # "" THEN Fail(d, dir.err)
    ELSE IF dir.inode.type # "directory" THEN Fail(d, "InvalidPath")
    ELSE IF JsLess(2, dir.inode.refs) THEN Fail(d, "Error: Dir is not empty")
    ELSE
    Bind(_unlink(d, dir.inode, <<Dot>>), LAMBDA u1 :
      IF u1.err # "" THEN u1
      ELSE
      Bind(lookUp(u1.dev, cwd, dirPath), LAMBDA dir2 :
        IF dir2.err # "" THEN Fail(u1.dev, dir2.err)
        ELSE
        Bind(_unlink(u1.dev, dir2.inode, <<Dot, Dot>>), LAMBDA u2 :
          IF u2.err # "" THEN u2
          ELSE
          Bind(lookUp(u2.dev, cwd, _getDirPath(dirPath)), LAMBDA parentDir :
            IF parentDir.err # "" THEN Fail(u2.dev, parentDir.err)
            ELSE _unlink(u2.dev, parentDir.inode, _getFileName(dirPath)))))))

\* The part of symlink after the descriptor is stored.
SymlinkBody(d, dir, link0, fileName, linkPath) ==
  Bind(_addLink(d, dir, link0, fileName, FALSE), LAMBDA a :
    IF a.err # "" THEN Caught(a.dev, a.err, a.file)
    ELSE
    Bind(_truncate(a.dev, a.file, Len(linkPath)), LAMBDA t :
      IF t.err # "" THEN Caught(t.dev, t.err, t.inode)
      ELSE
      Bind(getDescriptor(t.dev, link0.ino), LAMBDA stored :
      Bind(TextEncode(linkPath), LAMBDA linkPathBytes :
      Bind(_write(t.dev, stored, 0, linkPathBytes), LAMBDA w :
        IF w.err # "" THEN Caught(w.dev, w.err, w.inode)
        ELSE Ok(w.dev))))))

symlink(d, cwd, filePath, linkPath) ==
  Bind(lookUp(d, cwd, _getDirPath(filePath)), LAMBDA dir :
    IF dir.err # "" THEN Fail(d, dir.err)
    ELSE IF dir.inode.type # "directory" THEN Fail(d, "InvalidPath")
    ELSE
    Bind(_getUnusedDescriptor(d), LAMBDA g :
      IF g.err # "" THEN Fail(d, g.err)
      ELSE
      Bind(Fresh(g.inode, "symlink"), LAMBDA link0 :
      Bind(_updateDescriptor(d, link0), LAMBDA u :
        IF u.err # "" THEN u
        ELSE SymlinkBody(u.dev, dir.inode, link0, _getFileName(filePath), linkPath)))))

readDirectory(d, cwd, dirPath) ==
  Bind(lookUp(d, cwd, dirPath), LAMBDA dir :
    IF dir.err # "" THEN [err |-> dir.err, dentries |-> <<>>]
    ELSE IF dir.inode.type # "directory" THEN [err |-> "InvalidPath", dentries |-> <<>>]
    ELSE _readDirectory(d, dir.inode))

\* open returns the inode number that is stored under a fresh handle.
open(d, cwd, filePath) ==
  Bind(lookUp(d, cwd, filePath), LAMBDA file :
    IF file.err # "" THEN [err |-> file.err, ino |-> 0]
    ELSE IF file.inode.type # "regular" THEN [err |-> "InvalidPath", ino |-> 0]
    ELSE [err |-> "", ino |-> file.inode.ino])

\* const ino = this.openFiles[numericInode]; if (!ino) throw new InvalidArgument
Opened(files, numericInode) == numericInode \in DOMAIN files /\ files[numericInode] # 0

read(d, files, numericInode, offset, size) ==
  IF ~Opened(files, numericInode) THEN [err |-> "InvalidArgument", data |-> <<>>]
  ELSE Bind(getDescriptor(d, files[numericInode]), LAMBDA file :
         _read(d, file, offset, size))

write(d, files, numericInode, offset, buffer) ==
  IF ~Opened(files, numericInode) THEN Fail(d, "InvalidArgument")
  ELSE Bind(getDescriptor(d, files[numericInode]), LAMBDA file :
       Bind(_write(d, file, offset, buffer), LAMBDA w :
         [dev |-> w.dev, err |-> w.err]))

cd(d, cwd, dirPath) ==
  Bind(lookUp(d, cwd, dirPath), LAMBDA dir :
    [err |-> dir.err, cwdIno |-> IF dir.err = "" THEN dir.inode.ino ELSE cwd])

\* parentDentries.find(d => d.ino == ino): its 1-based position, 0 if none.
FindIno(dentries, ino) ==
  IF \E k \in 1..Len(dentries) : dentries[k].ino = ino
  THEN CHOOSE k \in 1..Len(dentries) :
         dentries[k].ino = ino /\ \A j \in 1..(k - 1) : dentries[j].ino # ino
  ELSE 0

RECURSIVE PwdLoop(_, _, _, _, _)
\* The while loop of pwd, entered with dir, its entries and the path so far.
\* Reading ".ino" or ".fileName" of what find did not find is a TypeError.
\* The loop writes nothing, so what a turn does is decided by dir alone: one
\* that has taken more turns than there are descriptors never returns.
PwdLoop(d, dir, dentries, path, turns) ==
  LET self == FindName(dentries, <<Dot>>)
      parent == FindName(dentries, <<Dot, Dot>>)
  IN IF self = 0 \/ parent = 0 THEN [err |-> "TypeError", path |-> path]
     ELSE IF dentries[self].ino = dentries[parent].ino THEN [err |-> "", path |-> path]
     ELSE IF turns > _getN(d) THEN [err |-> "NoReturn", path |-> path]
     ELSE Bind(getDescriptor(d, dentries[parent].ino), LAMBDA parentDir :
          Bind(_readDirectory(d, parentDir), LAMBDA rd :
            IF rd.err # "" THEN [err |-> rd.err, path |-> path]
            ELSE IF FindIno(rd.dentries, dir.ino) = 0 THEN [err |-> "TypeError", path |-> path]
            ELSE Bind(<<Slash>> \o rd.dentries[FindIno(rd.dentries, dir.ino)].fileName \o path,
                      LAMBDA path1 : PwdLoop(d, parentDir, rd.dentries, path1, turns + 1))))

pwd(d, cwd) ==
  IF cwd = 0 THEN [err |-> "", path |-> <<Slash>>]
  ELSE Bind(getDescriptor(d, cwd), LAMBDA dir :
       Bind(_readDirectory(d, dir), LAMBDA rd :
         IF rd.err # "" THEN [err |-> rd.err, path |-> <<>>]
         ELSE PwdLoop(d, dir, rd.dentries, <<>>, 0)))

(***************************************************************************)
(* The bytes of a file as read() returns them.                             *)
(***************************************************************************)
\* The whole body of inode ino: _read(file, 0, file.size).
Content(d, ino) ==
  Bind(getDescriptor(d, ino), LAMBDA file : _read(d, file, 0, file.size))

\* The body of the regular file that filePath names, <<>> when there is none.
BytesAt(d, cwd, filePath) ==
  Bind(lookUp(d, cwd, filePath), LAMBDA file :
    IF file.err # "" \/ file.inode.type # "regular" THEN <<>>
    ELSE Bind(_read(d, file.inode, 0, file.inode.size), LAMBDA r :
           IF r.err # "" THEN <<>> ELSE r.data))

\* bytes with buffer laid over it from offset on.
Splice(bytes, offset, buffer) ==
  [i \in 1..Len(bytes) |->
     IF offset < i /\ i <= offset + Len(buffer) THEN buffer[i - offset] ELSE bytes[i]]

(***************************************************************************)
(* The state machine.  index.js builds a Device and a Driver and calls     *)
(* mkfs before anything else; Init is the state after the two constructors *)
(* (zeroed memory, no open file, cwd 0) and Mkfs is the first call.        *)
(* lastOp records the last call, its arguments and what it returned or     *)
(* threw; steps counts the calls made.                                     *)
(***************************************************************************)
VARIABLES dev, openFiles, cwdIno, nextFd, formatted, lastOp, steps

vars == <<dev, openFiles, cwdIno, nextFd, formatted, lastOp, steps>>

\* The number of driver calls followed from the constructors on.
MaxSteps == 4

\* The number of driver calls followed in the file input/output scenarios.
MaxStepsIO == 7

\* The number of handles open() hands out.
MaxHandles == 2

\* const n = 10; driver.mkfs(n)
N == 10

NoOp == [op |-> "new", path |-> <<>>, path2 |-> <<>>, fd |-> 0, offset |-> 0, size |-> 0,
         buffer |-> <<>>, err |-> "", data |-> <<>>, ino |-> -1]

Init ==
  /\ dev = [a \in 0..(BLOCK_COUNT - 1) |-> Zeros(BLOCK_SIZE)]
  /\ openFiles = <<>>
  /\ cwdIno = 0
  /\ nextFd = 1
  /\ formatted = FALSE
  /\ lastOp = NoOp
  /\ steps = 0

\* A call that changes nothing but the device.
DeviceCall(r, op) ==
  /\ dev' = r.dev
  /\ lastOp' = [op EXCEPT !.err = r.err]
  /\ steps' = steps + 1
  /\ UNCHANGED <<openFiles, cwdIno, nextFd, formatted>>

\* The tests call mkfs again on the device the tests before them filled.
Mkfs(n) ==
  /\ \E r \in {mkfs(dev, n)} :
       /\ dev' = r.dev
       /\ lastOp' = [NoOp EXCEPT !.op = "mkfs", !.size = n, !.err = r.err]
  /\ formatted' = TRUE
  /\ steps' = steps + 1
  /\ UNCHANGED <<openFiles, cwdIno, nextFd>>

Create(filePath) ==
  /\ formatted
  /\ \E r \in {create(dev, cwdIno, filePath)} :
       DeviceCall(r, [NoOp EXCEPT !.op = "create", !.path = filePath])

Link(filePath1, filePath2) ==
  /\ formatted
  /\ \E r \in {link(dev, cwdIno, filePath1, filePath2)} :
       DeviceCall(r, [NoOp EXCEPT !.op = "link", !.path = filePath1, !.path2 = filePath2])

Unlink(filePath) ==
  /\ formatted
  /\ \E r \in {unlink(dev, cwdIno, filePath)} :
       DeviceCall(r, [NoOp EXCEPT !.op = "unlink", !.path = filePath])

Mkdir(dirPath) ==
  /\ formatted
  /\ \E r \in {mkdir(dev, cwdIno, dirPath)} :
       DeviceCall(r, [NoOp EXCEPT !.op = "mkdir", !.path = dirPath])

Rmdir(dirPath) ==
  /\ formatted
  /\ \E r \in {rmdir(dev, cwdIno, dirPath)} :
       DeviceCall(r, [NoOp EXCEPT !.op = "rmdir", !.path = dirPath])

Symlink(filePath, linkPath) ==
  /\ formatted
  /\ \E r \in {symlink(dev, cwdIno, filePath, linkPath)} :
       DeviceCall(r, [NoOp EXCEPT !.op = "symlink", !.path = filePath, !.path2 = linkPath])

\* lastOp.data keeps the bytes the file held before the call, for comparison
\* with what it holds later.
Truncate(filePath, size) ==
  /\ formatted
  /\ \E r \in {truncate(dev, cwdIno, filePath, size)} :
       DeviceCall(r, [NoOp EXCEPT !.op = "truncate", !.path = filePath, !.size = size,
                                  !.data = BytesAt(dev, cwdIno, filePath)])

Write(numericInode, offset, buffer) ==
  /\ formatted
  /\ \E r \in {write(dev, openFiles, numericInode, offset, buffer)} :
       DeviceCall(r, [NoOp EXCEPT !.op = "write", !.fd = numericInode, !.offset = offset,
                                  !.buffer = buffer])

Read(numericInode, offset, size) ==
  /\ formatted
  /\ \E r \in {read(dev, openFiles, numericInode, offset, size)} :
       lastOp' = [NoOp EXCEPT !.op = "read", !.fd = numericInode, !.offset = offset,
                              !.size = size, !.err = r.err, !.data = r.data]
  /\ steps' = steps + 1
  /\ UNCHANGED <<dev, openFiles, cwdIno, nextFd, formatted>>

\* The handle is a fresh uuid; handles are numbered in the order they are made.
Open(filePath) ==
  /\ formatted /\ nextFd <= MaxHandles
  /\ \E r \in {open(dev, cwdIno, filePath)} :
       /\ openFiles' = IF r.err = "" THEN openFiles @@ (nextFd :> r.ino) ELSE openFiles
       /\ nextFd' = IF r.err = "" THEN nextFd + 1 ELSE nextFd
       /\ lastOp' = [NoOp EXCEPT !.op = "open", !.path = filePath, !.err = r.err,
                                 !.fd = IF r.err = "" THEN nextFd ELSE 0,
                                 !.ino = IF r.err = "" THEN r.ino ELSE -1]
  /\ steps' = steps + 1
  /\ UNCHANGED <<dev, cwdIno, formatted>>

\* A close that forgets every handle.
CloseAll(numericInode) ==
  /\ formatted
  /\ openFiles' = <<>>
  /\ lastOp' = [NoOp EXCEPT !.op = "close", !.fd = numericInode]
  /\ steps' = steps + 1
  /\ UNCHANGED <<dev, cwdIno, nextFd, formatted>>

\* delete this.openFiles[numericInode]
Close(numericInode) ==
  /\ formatted
  /\ openFiles' = [h \in (DOMAIN openFiles) \ {numericInode} |-> openFiles[h]]
  /\ lastOp' = [NoOp EXCEPT !.op = "close", !.fd = numericInode]
  /\ steps' = steps + 1
  /\ UNCHANGED <<dev, cwdIno, nextFd, formatted>>

Cd(dirPath) ==
  /\ formatted
  /\ \E r \in {cd(dev, cwdIno, dirPath)} :
       /\ cwdIno' = r.cwdIno
       /\ lastOp' = [NoOp EXCEPT !.op = "cd", !.path = dirPath, !.err = r.err]
  /\ steps' = steps + 1
  /\ UNCHANGED <<dev, openFiles, nextFd, formatted>>

\* driver.lookUp(filePath) called from outside; the inode it returns is observed.
Lookup(filePath) ==
  /\ formatted
  /\ \E r \in {lookUp(dev, cwdIno, filePath)} :
       lastOp' = [NoOp EXCEPT !.op = "lookUp", !.path = filePath, !.err = r.err,
                              !.ino = IF r.err = "" THEN r.inode.ino ELSE -1]
  /\ steps' = steps + 1
  /\ UNCHANGED <<dev, openFiles, cwdIno, nextFd, formatted>>

\* driver.getDescriptor(ino); the method has no throw statement, and lastOp.size
\* is the size of the record it returns.
GetDescriptor(ino) ==
  /\ formatted
  /\ \E inode \in {getDescriptor(dev, ino)} :
       lastOp' = [NoOp EXCEPT !.op = "getDescriptor", !.ino = ino, !.err = "",
                              !.size = inode.size]
  /\ steps' = steps + 1
  /\ UNCHANGED <<dev, openFiles, cwdIno, nextFd, formatted>>

\* driver.pwd(); lastOp.data is the string returned.
Pwd ==
  /\ formatted
  /\ \E r \in {pwd(dev, cwdIno)} :
       lastOp' = [NoOp EXCEPT !.op = "pwd", !.err = r.err,
                              !.data = IF r.err = "" THEN r.path ELSE <<>>]
  /\ steps' = steps + 1
  /\ UNCHANGED <<dev, openFiles, cwdIno, nextFd, formatted>>

\* driver.readDirectory(dirPath); lastOp.size is the number of entries returned.
Readdir(dirPath) ==
  /\ formatted
  /\ \E r \in {readDirectory(dev, cwdIno, dirPath)} :
       lastOp' = [NoOp EXCEPT !.op = "readDirectory", !.path = dirPath, !.err = r.err,
                              !.size = IF r.err = "" THEN Len(r.dentries) ELSE 0]
  /\ steps' = steps + 1
  /\ UNCHANGED <<dev, openFiles, cwdIno, nextFd, formatted>>

(***************************************************************************)
(* Paths the calls are made with: "/", "/a", "/f", "/g", "/s", "/a/f",     *)
(* "/a/.", "/f/x", the symlink target ".", the relative path "a" and the   *)
(* paths "/s/s/s", "/s/s/s/s" and "/s/s/s/s/s/s" through the symlink.      *)
(***************************************************************************)
PathRoot == <<Slash>>
PathA == <<Slash, 97>>
PathF == <<Slash, 102>>
PathG == <<Slash, 103>>
PathS == <<Slash, 115>>
PathAF == <<Slash, 97, Slash, 102>>
PathADot == <<Slash, 97, Slash, Dot>>
PathFX == <<Slash, 102, Slash, 120>>
PathDot == <<Dot>>
PathRelA == <<97>>
PathS3 == PathS \o PathS \o PathS
PathS4 == PathS3 \o PathS
PathS6 == PathS3 \o PathS3

\* The namespace scenarios: files, directories, links and lookups.
Next ==
  \/ steps < MaxSteps /\ Mkfs(N)
  \/ \E p \in {PathF, PathAF, PathFX} : steps < MaxSteps /\ Create(p)
  \/ \E p \in {PathA} : steps < MaxSteps /\ Mkdir(p)
  \/ \E p \in {PathRoot, PathA, PathADot} : steps < MaxSteps /\ Rmdir(p)
  \/ \E p \in {PathG, PathFX} : steps < MaxSteps /\ Link(PathF, p)
  \/ \E p \in {PathF, PathG} : steps < MaxSteps /\ Unlink(p)
  \/ \E p \in {PathS} : steps < MaxSteps /\ Symlink(p, PathDot)
  \/ \E p \in {PathF} : steps < MaxSteps /\ Truncate(p, 10)
  \/ \E p \in {PathA, PathS} : steps < MaxSteps /\ Cd(p)
  \/ \E p \in {PathA, PathRelA, PathS3, PathS4, PathS6} : steps < MaxSteps /\ Lookup(p)

Spec == Init /\ [][Next]_vars

(***************************************************************************)
(* The file input/output scenarios: one file "/f" of four blocks, one       *)
(* more than the inode has direct links, written through one handle, also  *)
(* after the name is unlinked and made again.  The device is formatted     *)
(* once.                                                                   *)
(***************************************************************************)
\* Four blocks.
SizeLarge == 4 * BLOCK_SIZE

\* A size inside the first block.
SizeSmall == 12

\* The size of a file of two blocks, both of them direct.
SizeTwoBlocks == 2 * BLOCK_SIZE

\* new Uint8Array([1, 2, 3, 4, 5, 6, 7]), the buffer the tests write at offset 10.
TestData == <<1, 2, 3, 4, 5, 6, 7>>

\* A buffer of bytes that are not zero, 137 bytes long: written at offset 1
\* it ends in the third block.
LongData == [i \in 1..(2 * BLOCK_SIZE + 9) |-> (i % 251) + 1]

NextIO ==
  \/ steps < MaxStepsIO /\ ~formatted /\ Mkfs(N)
  \/ steps < MaxStepsIO /\ Create(PathF)
  \/ \E size \in {SizeLarge, SizeTwoBlocks, SizeSmall} :
       steps < MaxStepsIO /\ Truncate(PathF, size)
  \/ steps < MaxStepsIO /\ Open(PathF)
  \/ \E w \in {<<10, TestData>>, <<BLOCK_SIZE + 6, TestData>>, <<1, LongData>>,
                <<BLOCK_SIZE - Len(TestData), TestData>>, <<0, <<>>>>,
                <<INODE_STRAIGHT_LINKS_COUNT * BLOCK_SIZE + 6, TestData>>} :
       steps < MaxStepsIO /\ Write(1, w[1], w[2])
  \/ \E r \in {<<1, Len(LongData)>>, <<0, 0>>} :
       steps < MaxStepsIO /\ Read(1, r[1], r[2])
  \/ steps < MaxStepsIO /\ Close(1)
  \/ steps < MaxStepsIO /\ Unlink(PathF)

SpecIO == Init /\ [][NextIO]_vars

(***************************************************************************)
(* The symbolic link scenarios: the directories "/a", "/a/b" and "/a/b/c", *)
(* the link "/a/b/c/up" with the body "../..", and lookups through it from *)
(* the root and from "/a" as current directory, the last with the path     *)
(* "b/c/up/b" too.                                                         *)
(***************************************************************************)
\* The number of driver calls followed in the symbolic link scenarios.
MaxStepsLinks == 7

PathAB == <<Slash, 97, Slash, 98>>
PathABC == <<Slash, 97, Slash, 98, Slash, 99>>
PathUp == PathABC \o <<Slash, 117, 112>>
PathUpAB == PathUp \o PathAB
PathUpB == PathUp \o <<Slash, 98>>
PathRelUpB == <<98, Slash, 99, Slash, 117, 112, Slash, 98>>
PathDotDotTwice == <<Dot, Dot, Slash, Dot, Dot>>

NextLinks ==
  \/ steps < MaxStepsLinks /\ ~formatted /\ Mkfs(N)
  \/ \E p \in {PathA, PathAB, PathABC} : steps < MaxStepsLinks /\ Mkdir(p)
  \/ steps < MaxStepsLinks /\ Symlink(PathUp, PathDotDotTwice)
  \/ \E p \in {PathRoot, PathA, PathAB, PathABC, PathUp} : steps < MaxStepsLinks /\ Cd(p)
  \/ steps < MaxStepsLinks /\ Pwd
  \/ \E p \in {PathUpAB, PathUpB, PathRelUpB} : steps < MaxStepsLinks /\ Lookup(p)

SpecLinks == Init /\ [][NextLinks]_vars

(***************************************************************************)
(* The file type scenarios: the directory "/a", the regular file "/f" and  *)
(* the symbolic link "/s", and the calls that take a file of one type made *)
(* on a file of another.                                                   *)
(***************************************************************************)
\* The number of driver calls followed in the file type scenarios.
MaxStepsTypes == 5

NextTypes ==
  \/ steps < MaxStepsTypes /\ ~formatted /\ Mkfs(N)
  \/ steps < MaxStepsTypes /\ Mkdir(PathA)
  \/ steps < MaxStepsTypes /\ Create(PathF)
  \/ steps < MaxStepsTypes /\ Symlink(PathS, PathDot)
  \/ \E p \in {PathA, PathS} : steps < MaxStepsTypes /\ Link(p, PathG)
  \/ steps < MaxStepsTypes /\ Unlink(PathA)
  \/ \E p \in {PathA, PathS} : steps < MaxStepsTypes /\ Open(p)
  \/ \E p \in {PathA, PathS} : steps < MaxStepsTypes /\ Truncate(p, SizeSmall)
  \/ \E p \in {PathF, PathS, PathA} : steps < MaxStepsTypes /\ Readdir(p)
  \/ \E ino \in {-1, 1, N} : steps < MaxStepsTypes /\ GetDescriptor(ino)

SpecTypes == Init /\ [][NextTypes]_vars

(***************************************************************************)
(* The handle scenarios: "/f" opened more than once, and reads, writes and *)
(* closes through each handle open() has returned and through one it has   *)
(* not.                                                                    *)
(***************************************************************************)
\* The number of driver calls followed in the handle scenarios.
MaxStepsHandles == 6

NextHandles ==
  \/ steps < MaxStepsHandles /\ ~formatted /\ Mkfs(N)
  \/ steps < MaxStepsHandles /\ Create(PathF)
  \/ steps < MaxStepsHandles /\ Truncate(PathF, SizeSmall)
  \/ steps < MaxStepsHandles /\ Open(PathF)
  \/ \E h \in 1..(MaxHandles + 1) : steps < MaxStepsHandles /\ Write(h, 0, TestData)
  \/ \E h \in 1..(MaxHandles + 1) : steps < MaxStepsHandles /\ Read(h, 0, Len(TestData))
  \/ \E h \in 1..(MaxHandles + 1) : steps < MaxStepsHandles /\ Close(h)

SpecHandles == Init /\ [][NextHandles]_vars

(***************************************************************************)
(* The growth scenarios: truncate of "/f" and "/g" to sizes that need the  *)
(* double-indirect block and to a size no inode can map, on a device made  *)
(* with 10 descriptors, as index.js and the tests make it, or with 3.      *)
(***************************************************************************)
\* The number of driver calls followed in the growth scenarios.
MaxStepsGrow == 5

\* One block more than the direct and single-indirect slots map.
SizeDouble == (INODE_STRAIGHT_LINKS_COUNT + ADDRESSES_IN_BLOCK + 1) * BLOCK_SIZE

\* One block more than the direct, single-indirect and double-indirect slots
\* of an inode can map.
SizeBeyond ==
  (INODE_STRAIGHT_LINKS_COUNT + ADDRESSES_IN_BLOCK + ADDRESSES_IN_BLOCK * ADDRESSES_IN_BLOCK + 1)
    * BLOCK_SIZE

NextGrow ==
  \/ \E n \in {3, N} : steps < MaxStepsGrow /\ ~formatted /\ Mkfs(n)
  \/ \E p \in {PathF, PathG} : steps < MaxStepsGrow /\ Create(p)
  \/ \E p \in {PathF, PathG}, size \in {SizeSmall, SizeDouble, SizeBeyond} :
       steps < MaxStepsGrow /\ Truncate(p, size)
  \/ steps < MaxStepsGrow /\ Unlink(PathF)

SpecGrow == Init /\ [][NextGrow]_vars

\* A device that runs full: every growth of /f to SizeDouble fails after
\* _appendBlockToINode has taken a single-indirect and a double-indirect
\* block, and the blocks stay marked. The tree is built in the first
\* MaxStepsSetup steps.
MaxStepsSetup == 3
MaxStepsFull == 113

NextFull ==
  \/ steps < MaxStepsSetup /\ ~formatted /\ Mkfs(N)
  \/ steps < MaxStepsSetup /\ Mkdir(PathA)
  \/ steps < MaxStepsSetup /\ Create(PathF)
  \/ steps < MaxStepsFull /\ Truncate(PathF, SizeDouble)

SpecFull == Init /\ [][NextFull]_vars

\* Names as long as the filename field of a directory entry and longer:
\* DENTRY_SIZE - N_SIZE times "a", then the characters of rest.
LongName(rest) == [i \in 1..(DENTRY_SIZE - N_SIZE) |-> 97] \o rest

PathFull == <<Slash>> \o LongName(<<>>)
PathLongB == <<Slash>> \o LongName(<<98>>)
PathLongC == <<Slash>> \o LongName(<<99>>)

MaxStepsNames == 4

NextNames ==
  \/ steps < MaxStepsNames /\ ~formatted /\ Mkfs(N)
  \/ \E p \in {PathF, PathFull, PathLongB, PathLongC} : steps < MaxStepsNames /\ Create(p)
  \/ \E p \in {PathF, PathG, PathLongB} : steps < MaxStepsNames /\ Link(PathF, p)
  \/ \E p \in {PathF, PathA, PathLongC} : steps < MaxStepsNames /\ Mkdir(p)
  \/ \E p \in {PathF, PathS, PathFull} : steps < MaxStepsNames /\ Symlink(p, PathDot)

SpecNames == Init /\ [][NextNames]_vars

(***************************************************************************)
(* serializer.js called on its own: a record is drawn, encoded and the     *)
(* bytes are decoded again.  lastOp holds the call, the record it was      *)
(* given, the bytes and the record read back.                              *)
(***************************************************************************)
\* INode objects with D direct slots.
InodeInputs ==
  {[ino |-> ino, type |-> type, refs |-> 1, size |-> size, straightLinks |-> links,
    singleIndirect |-> single, doubleIndirect |-> double] :
     ino \in {0, 1}, type \in {"regular", "directory", "symlink"},
     size \in {0, SizeLarge},
     links \in {[k \in 1..INODE_STRAIGHT_LINKS_COUNT |-> NAN_BLOCK_ADDRESS],
                [k \in 1..INODE_STRAIGHT_LINKS_COUNT |->
                   IF k = 1 THEN ZERO_BLOCK_ADDRESS ELSE k + N]},
     single \in {NAN_BLOCK_ADDRESS, N, N + 1},
     double \in {NAN_BLOCK_ADDRESS, N, N + 2}}

\* Dentry objects whose name has 1 to DENTRY_SIZE - N_SIZE characters.
DentryInputs ==
  {Dentry([i \in 1..length |-> char], ino) :
     length \in 1..(DENTRY_SIZE - N_SIZE), char \in {97, 102}, ino \in {0, 1, N - 1}}

InitCodec ==
  /\ dev = [a \in 0..(BLOCK_COUNT - 1) |-> Zeros(BLOCK_SIZE)]
  /\ openFiles = <<>>
  /\ cwdIno = 0
  /\ nextFd = 1
  /\ formatted = FALSE
  /\ steps = 0
  /\ lastOp \in {[op |-> "INode", input |-> inode] : inode \in InodeInputs}
               \cup {[op |-> "Dentry", input |-> dentry] : dentry \in DentryInputs}

\* One call of the serializer: from is the step before it.
CodecCall(from, op, bytes) ==
  /\ lastOp.op = from
  /\ lastOp' = [op |-> op, input |-> lastOp.input, bytes |-> bytes]
  /\ steps' = steps + 1
  /\ UNCHANGED <<dev, openFiles, cwdIno, nextFd, formatted>>

SerializeInode == CodecCall("INode", "serializeInode", serializeInode(lastOp.input))

SerializeDentry == CodecCall("Dentry", "serializeDentry", serializeDentry(lastOp.input))

\* The decoding of the bytes of the step before.
CodecRead(from, op, output) ==
  /\ lastOp.op = from
  /\ lastOp' = [op |-> op, input |-> lastOp.input, bytes |-> lastOp.bytes,
                 output |-> output]
  /\ steps' = steps + 1
  /\ UNCHANGED <<dev, openFiles, cwdIno, nextFd, formatted>>

DeserializeInode ==
  CodecRead("serializeInode", "deserializeInode", deserializeInode(lastOp.bytes))

DeserializeDentry ==
  CodecRead("serializeDentry", "deserializeDentry", deserializeDentry(lastOp.bytes))

NextCodec ==
  \/ SerializeInode
  \/ DeserializeInode
  \/ SerializeDentry
  \/ DeserializeDentry

SpecCodec == InitCodec /\ [][NextCodec]_vars

(***************************************************************************)
(* What a state of the device holds: the inode records, the directory      *)
(* listings and the tree of names under the root.                          *)
(***************************************************************************)
\* The inode numbers of the table mkfs laid out.
INos(d) == 0..(_getN(d) - 1)

\* The table, read with getDescriptor.
INodeTable(d) == [ino \in INos(d) |-> getDescriptor(d, ino)]

\* The entries of every DIRECTORY inode of the table, read as readDirectory
\* reads them; <<>> for the other inodes and for a directory that cannot be read.
Listing(d, table) ==
  [ino \in DOMAIN table |->
     IF table[ino].type # "directory" THEN <<>>
     ELSE Bind(_readDirectory(d, table[ino]), LAMBDA rd :
            IF rd.err # "" THEN <<>> ELSE rd.dentries)]

RECURSIVE TreeFrom(_, _)
\* The inodes that a path from the root names: the root, and whatever an entry
\* of a directory of the tree names.
TreeFrom(listing, seen) ==
  Bind(seen \cup {ino \in UNION {{listing[dir][k].ino : k \in 1..Len(listing[dir])} :
                                  dir \in seen} : ino \in DOMAIN listing},
       LAMBDA more : IF more = seen THEN seen ELSE TreeFrom(listing, more))

Tree(listing) == TreeFrom(listing, {0})

\* The number of entries of the directories of the tree that carry ino.
NameCount(listing, tree, ino) ==
  Cardinality({pair \in UNION {{<<dir, k>> : k \in 1..Len(listing[dir])} : dir \in tree} :
                 listing[pair[1]][pair[2]].ino = ino})

\* The blocks mkfs reserves for the bitmap, N and the inode table.
MetadataBlocks(d) ==
  0..(CeilDiv(BitmapSize + 4 + _getN(d) * INODE_SIZE, BLOCK_SIZE) - 1)

\* A stored address that names a block: neither "no block" nor "hole".
Real(address) ==
  IsNum(address) /\ address # NAN_BLOCK_ADDRESS /\ address # ZERO_BLOCK_ADDRESS

RealOf(addresses) == {addresses[k] : k \in {j \in 1..Len(addresses) : Real(addresses[j])}}

\* The addresses an indirect block holds, as _getBlocks reads them.
AddressesAt(d, address) ==
  IF Real(address) THEN RealOf(deserializeAddresses(ViewBytes(d, readBlock(address))))
  ELSE {}

\* The blocks an inode record references: its data blocks and the indirect
\* blocks that lead to them.
BlocksOf(d, inode) ==
  Bind(AddressesAt(d, inode.singleIndirect), LAMBDA single :
  Bind(AddressesAt(d, inode.doubleIndirect), LAMBDA outer :
    RealOf(inode.straightLinks)
    \cup RealOf(<<inode.singleIndirect, inode.doubleIndirect>>)
    \cup single \cup outer
    \cup UNION {AddressesAt(d, address) : address \in outer}))

\* The blocks referenced by the inodes that are in use.
Referenced(d, table) ==
  UNION {BlocksOf(d, table[ino]) : ino \in {i \in DOMAIN table : table[i].type # "unused"}}

\* The inode number under name in the directory dirIno, -1 when no entry of
\* it has the name.
EntryOf(d, dirIno, name) ==
  Bind(_readDirectory(d, getDescriptor(d, dirIno)), LAMBDA rd :
    IF rd.err # "" \/ FindName(rd.dentries, name) = 0 THEN -1
    ELSE rd.dentries[FindName(rd.dentries, name)].ino)

RECURSIVE Walk(_, _, _)
\* The inode number that the names lead to from the directory dirIno, by the
\* entries of the directories alone; -1 when a name is missing.
Walk(d, dirIno, names) ==
  IF dirIno = -1 \/ names = <<>> THEN dirIno
  ELSE Bind(EntryOf(d, dirIno, Head(names)), LAMBDA ino : Walk(d, ino, Tail(names)))

\* The bitmap as a set of block indexes.
UsedBlocks(d) == {blockIndex \in 0..(BLOCK_COUNT - 1) : BlockBit(d, blockIndex)}

(***************************************************************************)
(* Claims                                                                  *)
(***************************************************************************)
\* C1: after mkfs and any sequence of operations, every inode that a name
\* reaches has refs equal to the number of directory entries of the whole
\* tree that carry its ino, "." and ".." counted.
RefsEqualNames ==
  formatted =>
    Bind(INodeTable(dev), LAMBDA table :
    Bind(Listing(dev, table), LAMBDA listing :
    Bind(Tree(listing), LAMBDA tree :
      \A ino \in tree : table[ino].refs = NameCount(listing, tree, ino))))

\* C2: after every successful operation a bitmap bit is set exactly when its
\* block is a metadata block or is referenced, as a data block or an indirect
\* block, by an inode of type REGULAR, DIRECTORY or SYMLINK.
BitmapMatchesReferences ==
  (formatted /\ lastOp.err = "") =>
    Bind(Referenced(dev, INodeTable(dev)) \cup MetadataBlocks(dev), LAMBDA used :
      \A blockIndex \in 0..(BLOCK_COUNT - 1) :
        BlockBit(dev, blockIndex) <=> blockIndex \in used)

\* C3: in every state reachable after mkfs, the states that calls ending in
\* an error leave behind included, inode 0 has type DIRECTORY.
RootIsDirectory ==
  formatted => getDescriptor(dev, 0).type = "directory"

\* C4: after any sequence of operations every inode of type DIRECTORY has a
\* body of DENTRY_SIZE bytes per entry and at least two entries, the first
\* being "." with its own number and the second ".." with the number of its
\* parent (0 for the root), a directory that holds an entry for it.
DirectoriesWellFormed ==
  formatted =>
    Bind(INodeTable(dev), LAMBDA table :
    Bind(Listing(dev, table), LAMBDA listing :
      \A ino \in {i \in DOMAIN table : table[i].type = "directory"} :
        /\ table[ino].size = DENTRY_SIZE * Len(listing[ino])
        /\ Len(listing[ino]) >= 2
        /\ listing[ino][1] = Dentry(<<Dot>>, ino)
        /\ listing[ino][2].fileName = <<Dot, Dot>>
        /\ ino = 0 => listing[ino][2].ino = 0
        /\ ino # 0 =>
             /\ listing[ino][2].ino \in DOMAIN table
             /\ listing[ino][2].ino # ino
             /\ \E k \in 1..Len(listing[listing[ino][2].ino]) :
                  listing[listing[ino][2].ino][k].ino = ino))

\* C5: when unlink(path) removes the last name of a regular file (refs 1)
\* the inode becomes UNUSED with size 0 and the bitmap bit of every block it
\* owned, data or indirect, is cleared; when other names remain (refs > 1)
\* the inode stays REGULAR with refs one less and its blocks stay allocated.
UnlinkReleasesLastName ==
  [][lastOp'.op = "unlink" =>
       \A found \in {lookUp(dev, cwdIno, lastOp'.path)} :
         (/\ found.err = ""
          /\ found.inode.type = "regular"
          /\ lookUp(dev', cwdIno, lastOp'.path).err = "InvalidPath") =>
           \A after \in {getDescriptor(dev', found.inode.ino)} :
             /\ found.inode.refs = 1 =>
                  /\ after.type = "unused"
                  /\ after.size = 0
                  /\ \A b \in BlocksOf(dev, found.inode) : ~BlockBit(dev', b)
             /\ JsLess(1, found.inode.refs) =>
                  /\ after.type = "regular"
                  /\ after.refs = found.inode.refs - 1
                  /\ \A b \in BlocksOf(dev, found.inode) : BlockBit(dev', b)]_vars

\* C6: rmdir(path) on a directory that holds an entry other than "." and
\* ".." fails with "Dir is not empty" and removes nothing.
RmdirOnlyWhenEmpty ==
  [][lastOp'.op = "rmdir" =>
       \A found \in {lookUp(dev, cwdIno, lastOp'.path)} :
         (/\ found.err = ""
          /\ found.inode.type = "directory"
          /\ \E entry \in {_readDirectory(dev, found.inode).dentries[k] :
                            k \in 1..(found.inode.size \div DENTRY_SIZE)} :
               entry.fileName \notin {<<Dot>>, <<Dot, Dot>>}) =>
           /\ lastOp'.err = "Error: Dir is not empty"
           /\ dev' = dev]_vars

\* C9: a path with a leading "/" is resolved from the root whatever the
\* current directory is (lookUp("/a") returns the root's entry "a"), and a
\* path without one is resolved from the current directory.
LookupAnchoredByLeadingSlash ==
  (/\ lastOp.op = "lookUp"
   /\ \A k \in 2..Len(lastOp.path) : lastOp.path[k] # Slash) =>
     IF lastOp.path[1] = Slash
     THEN lastOp.ino = EntryOf(dev, 0, Tail(lastOp.path))
     ELSE lastOp.ino = EntryOf(dev, cwdIno, lastOp.path)

\* C10: create(path) on a name that its parent directory already holds fails
\* with FileAlreadyExist and leaves every inode record and the bitmap as they
\* were before the call.
CreateExistingChangesNothing ==
  [][lastOp'.op = "create" =>
       \A dir \in {lookUp(dev, cwdIno, _getDirPath(lastOp'.path))} :
         (/\ dir.err = ""
          /\ dir.inode.type = "directory"
          /\ EntryOf(dev, dir.inode.ino, _getFileName(lastOp'.path)) # -1) =>
           /\ lastOp'.err = "FileAlreadyExist"
           /\ INodeTable(dev') = INodeTable(dev)
           /\ UsedBlocks(dev') = UsedBlocks(dev)]_vars

\* C7: for an open regular file and a buffer that fits in it, write(h,
\* offset, buffer) followed by read(h, offset, len(buffer)) returns buffer,
\* and every other byte of the file reads as before the write, for ranges
\* that start off a block boundary and span three blocks included.
WriteThenReadReturnsBuffer ==
  [][/\ (lastOp'.op = "write" /\ lastOp'.err = "") =>
          \A before \in {Content(dev, openFiles[lastOp'.fd])} :
            \A after \in {Content(dev', openFiles[lastOp'.fd])} :
              /\ after.err = ""
              /\ after.data = Splice(before.data, lastOp'.offset, lastOp'.buffer)
     /\ (/\ lastOp.op = "write" /\ lastOp.err = ""
         /\ lastOp'.op = "read" /\ lastOp'.fd = lastOp.fd
         /\ lastOp'.offset = lastOp.offset /\ lastOp'.size = Len(lastOp.buffer)) =>
          /\ lastOp'.err = ""
          /\ lastOp'.data = lastOp.buffer]_vars

\* C8: for a regular file with written content, truncate(f, n) followed by
\* truncate(f, m) with m > n leaves every byte of [n, m) reading as zero and
\* the bytes of [0, n) as they were, whether or not [n, m) shares a block
\* with the bytes kept.
ShrinkThenGrowReadsZero ==
  [][(/\ lastOp.op = "truncate" /\ lastOp'.op = "truncate"
      /\ lastOp'.path = lastOp.path
      /\ lastOp.size < lastOp'.size
      /\ lastOp.size <= Len(lastOp.data)
      /\ \E i \in 1..Len(lastOp.data) : lastOp.data[i] # 0) =>
        \A after \in {BytesAt(dev', cwdIno, lastOp.path)} :
          /\ Len(after) = lastOp'.size
          /\ \A i \in 1..Len(after) :
               after[i] = IF i <= lastOp.size THEN lastOp.data[i] ELSE 0]_vars

\* C11: when mkdir(path) or symlink(path, body) fails with FileAlreadyExist,
\* the inode it tentatively allocated is of type UNUSED again when the error
\* is raised, and the parent directory's entries and refs and the bitmap are
\* as before the call.
FailedMkdirRollsBack ==
  [][(lastOp'.op \in {"mkdir", "symlink"} /\ lastOp'.err = "FileAlreadyExist") =>
       \A parentDir \in {lookUp(dev, cwdIno, _getDirPath(lastOp'.path))} :
         \A g \in {_getUnusedDescriptor(dev)} :
           /\ g.err = "" => getDescriptor(dev', g.inode.ino).type = "unused"
           /\ parentDir.err = "" =>
                /\ getDescriptor(dev', parentDir.inode.ino).refs = parentDir.inode.refs
                /\ _readDirectory(dev', getDescriptor(dev', parentDir.inode.ino)).dentries
                     = _readDirectory(dev, parentDir.inode).dentries
           /\ UsedBlocks(dev') = UsedBlocks(dev)]_vars

\* A mkdir or a symlink onto a name that exists has just thrown FileAlreadyExist.
FailedMkdirSeen ==
  /\ lastOp.op \in {"mkdir", "symlink"}
  /\ lastOp.err = "FileAlreadyExist"

\* Handle 1 is open on an inode that is UNUSED: open takes regular files
\* only and the device is formatted once, so the last name of its file has
\* been unlinked since.
HandleOnUnusedINode ==
  Opened(openFiles, 1) /\ getDescriptor(dev, openFiles[1]).type = "unused"

\* Handle 1 is open and create("/f") has just returned: "/f", the one name of
\* these scenarios, was free, so the file the handle was opened on is gone
\* and its number has been handed out again.
RecreatedUnderHandle ==
  Opened(openFiles, 1) /\ lastOp.op = "create" /\ lastOp.err = ""

\* C12: after the last name of a regular file is unlinked while a handle to
\* it is open, every later read or write through that handle fails, for every
\* offset and size (size 0 included), also after create has given the freed
\* inode number to another file.
StaleHandleFails ==
  [][(/\ lastOp'.op \in {"read", "write"} /\ lastOp'.fd = 1
      /\ (HandleOnUnusedINode \/ RecreatedUnderHandle)) =>
        lastOp'.err # ""]_vars

\* C13: after mkfs(n), whatever the device held before, the N field reads n,
\* inode 0 is a DIRECTORY with refs 2, size 2 * DENTRY_SIZE and the entries
\* (".", 0) and ("..", 0), its direct slots past the first and its single
\* indirect address are NAN_BLOCK_ADDRESS, and inodes 1..n-1 are UNUSED.
MkfsMakesEmptyRoot ==
  lastOp.op = "mkfs" =>
    /\ lastOp.err = ""
    /\ _getN(dev) = lastOp.size
    /\ \A root \in {getDescriptor(dev, 0)} :
         /\ root.type = "directory"
         /\ root.refs = 2
         /\ root.size = 2 * DENTRY_SIZE
         /\ \A rd \in {_readDirectory(dev, root)} :
              /\ rd.err = ""
              /\ rd.dentries = <<Dentry(<<Dot>>, 0), Dentry(<<Dot, Dot>>, 0)>>
         /\ Len(root.straightLinks) = INODE_STRAIGHT_LINKS_COUNT
         /\ \A k \in 2..INODE_STRAIGHT_LINKS_COUNT :
              root.straightLinks[k] = NAN_BLOCK_ADDRESS
         /\ root.singleIndirect = NAN_BLOCK_ADDRESS
    /\ \A ino \in 1..(lastOp.size - 1) : getDescriptor(dev, ino).type = "unused"

\* mkfs has run on a device that an earlier file system filled: a block that
\* is free now still holds bytes of it.
MkfsOverOldContent ==
  /\ lastOp.op = "mkfs"
  /\ \E blockIndex \in 0..(BLOCK_COUNT - 1) :
       ~BlockBit(dev, blockIndex) /\ dev[blockIndex] # Zeros(BLOCK_SIZE)

LinkThenUnlinkRestores ==
  [][/\ lastOp'.op = "link" =>
          \A src \in {lookUp(dev, cwdIno, lastOp'.path)} :
            \A dir \in {lookUp(dev, cwdIno, _getDirPath(lastOp'.path2))} :
              (/\ src.err = "" /\ src.inode.type = "regular"
               /\ dir.err = "" /\ dir.inode.type = "directory"
               /\ _readDirectory(dev, dir.inode).err = ""
               /\ EntryOf(dev, dir.inode.ino, _getFileName(lastOp'.path2)) = -1) =>
                /\ lastOp'.err = ""
                /\ getDescriptor(dev', src.inode.ino).type = "regular"
                /\ getDescriptor(dev', src.inode.ino).refs = src.inode.refs + 1
                /\ \A after \in {_readDirectory(dev', getDescriptor(dev', dir.inode.ino))} :
                     /\ after.err = ""
                     /\ after.dentries =
                          Append(_readDirectory(dev, dir.inode).dentries,
                                 Dentry(_getFileName(lastOp'.path2), src.inode.ino))
     /\ (/\ lastOp.op = "link" /\ lastOp.err = ""
         /\ lastOp'.op = "unlink" /\ lastOp'.path = lastOp.path2) =>
          \A src \in {lookUp(dev, cwdIno, lastOp.path)} :
            \A dir \in {lookUp(dev, cwdIno, _getDirPath(lastOp.path2))} :
              (/\ src.err = "" /\ src.inode.type = "regular"
               /\ dir.err = "" /\ dir.inode.type = "directory") =>
                \A before \in {_readDirectory(dev, dir.inode).dentries} :
                  /\ lastOp'.err = ""
                  /\ getDescriptor(dev', src.inode.ino).type = "regular"
                  /\ getDescriptor(dev', src.inode.ino).refs = src.inode.refs - 1
                  /\ \A after \in {_readDirectory(dev', getDescriptor(dev', dir.inode.ino))} :
                       /\ after.err = ""
                       /\ after.dentries = SubSeq(before, 1, Len(before) - 1)]_vars

\* link("/f", "/g") has returned and unlink("/g") after it has returned.
LinkedThenUnlinked ==
  /\ lastOp.op = "unlink" /\ lastOp.err = "" /\ lastOp.path = PathG
  /\ EntryOf(dev, 0, <<102>>) = 1
  /\ EntryOf(dev, 0, <<103>>) = -1
  /\ getDescriptor(dev, 1).refs = 1

\* C16: mkdir(p) on a name that its parent, an existing directory, does not
\* hold, followed by rmdir(p), gives back the state before the mkdir: the
\* parent's entries and refs, the UNUSED type of the inode that p used, and
\* the bitmap (the block of the new directory is free again).
MkdirThenRmdirRestores ==
  formatted =>
    \A dirPath \in {PathA} :
      \A parentDir \in {lookUp(dev, cwdIno, _getDirPath(dirPath))} :
        \A g \in {_getUnusedDescriptor(dev)} :
          (/\ parentDir.err = "" /\ parentDir.inode.type = "directory"
           /\ _readDirectory(dev, parentDir.inode).err = ""
           /\ EntryOf(dev, parentDir.inode.ino, _getFileName(dirPath)) = -1
           /\ g.err = "") =>
            \A made \in {mkdir(dev, cwdIno, dirPath)} :
              /\ made.err = ""
              /\ EntryOf(made.dev, parentDir.inode.ino, _getFileName(dirPath)) = g.inode.ino
              /\ getDescriptor(made.dev, g.inode.ino).type = "directory"
              /\ \A removed \in {rmdir(made.dev, cwdIno, dirPath)} :
                   /\ removed.err = ""
                   /\ getDescriptor(removed.dev, g.inode.ino).type = "unused"
                   /\ getDescriptor(removed.dev, parentDir.inode.ino).refs
                        = parentDir.inode.refs
                   /\ _readDirectory(removed.dev,
                                     getDescriptor(removed.dev, parentDir.inode.ino))
                        = _readDirectory(dev, parentDir.inode)
                   /\ UsedBlocks(removed.dev) = UsedBlocks(dev)

\* mkdir("/a") has returned, rmdir("/a") has returned after it, and the root
\* holds other entries besides.
MkdirThenRmdirDone ==
  /\ lastOp.op = "rmdir" /\ lastOp.err = "" /\ lastOp.path = PathA
  /\ EntryOf(dev, 0, <<97>>) = -1
  /\ getDescriptor(dev, 0).size > 2 * DENTRY_SIZE

\* The link "/a/b/c/up" is in place: its directory, and the inode that the
\* body "../.." names from that directory, -1 when there is no such link.
UpContainer == Walk(dev, 0, <<<<97>>, <<98>>, <<99>>>>)

UpIsLink ==
  /\ UpContainer # -1
  /\ EntryOf(dev, UpContainer, <<117, 112>>) # -1
  /\ \A stored \in {getDescriptor(dev, EntryOf(dev, UpContainer, <<117, 112>>))} :
       /\ stored.type = "symlink"
       /\ \A body \in {_read(dev, stored, 0, stored.size)} :
            body.err = "" /\ TextDecode(body.data) = PathDotDotTwice

UpTarget == Walk(dev, UpContainer, <<<<Dot, Dot>>, <<Dot, Dot>>>>)

\* The path of the last lookUp reaches the link "/a/b/c/up" from the current
\* directory: "/a/b/c/up/..." called in the root, "b/c/up/..." called in "/a".
UpReached ==
  /\ formatted /\ lastOp.op = "lookUp" /\ UpIsLink
  /\ \/ lastOp.path \in {PathUpAB, PathUpB} /\ cwdIno = 0
     \/ lastOp.path = PathRelUpB /\ cwdIno = Walk(dev, 0, <<<<97>>>>)

SIsLinkToDot ==
  /\ EntryOf(dev, 0, <<115>>) # -1
  /\ \A stored \in {getDescriptor(dev, EntryOf(dev, 0, <<115>>))} :
       /\ stored.type = "symlink"
       /\ \A body \in {_read(dev, stored, 0, stored.size)} :
            body.err = "" /\ TextDecode(body.data) = PathDot

CdFollowsTrailingLink ==
  [][lastOp'.op = "cd" =>
       \A found \in {lookUp(dev, cwdIno, lastOp'.path)} :
         /\ found.err # "" => lastOp'.err = "InvalidPath" /\ cwdIno' = cwdIno
         /\ (found.err = "" /\ found.inode.type = "directory") =>
              lastOp'.err = "" /\ cwdIno' = found.inode.ino
         /\ (found.err = "" /\ found.inode.type = "symlink") =>
              /\ cwdIno' # found.inode.ino
              /\ getDescriptor(dev', cwdIno').type = "directory"
              /\ (lastOp'.path = PathS /\ cwdIno = 0 /\ SIsLinkToDot) =>
                   lastOp'.err = "" /\ cwdIno' = 0]_vars

\* C20: an operation whose path passes through a component that exists and
\* is not a directory (create("/f/x") or link("/f", "/f/x") with "/f" a
\* regular file) fails with InvalidPath and changes nothing, whatever bytes
\* the regular file holds.
ThroughFileIsInvalidPath ==
  [][lastOp'.op \in {"create", "link", "mkdir", "symlink"} =>
       \A target \in {IF lastOp'.op = "link" THEN lastOp'.path2 ELSE lastOp'.path} :
         \A parent \in {lookUp(dev, cwdIno, _getDirPath(target))} :
           (/\ _getDirPath(target) # <<>>
            /\ parent.err = ""
            /\ parent.inode.type = "regular") =>
             /\ lastOp'.err = "InvalidPath"
             /\ dev' = dev
             /\ cwdIno' = cwdIno
             /\ openFiles' = openFiles]_vars

\* C21: a call made on a file of the wrong type fails with InvalidPath and
\* leaves the device, the current directory and the open files as they were:
\* link(src, dst) with src a directory or a symbolic link, unlink of a
\* directory, open and truncate of a file that is not REGULAR, readDirectory
\* of a file that is not a DIRECTORY.
WrongTypeIsInvalidPath ==
  [][lastOp'.op \in {"link", "unlink", "open", "truncate", "readDirectory"} =>
       \A found \in {lookUp(dev, cwdIno, lastOp'.path)} :
         (/\ found.err = ""
          /\ \/ lastOp'.op = "link" /\ found.inode.type \in {"directory", "symlink"}
             \/ lastOp'.op = "unlink" /\ found.inode.type = "directory"
             \/ lastOp'.op \in {"open", "truncate"} /\ found.inode.type # "regular"
             \/ lastOp'.op = "readDirectory" /\ found.inode.type # "directory") =>
           /\ lastOp'.err = "InvalidPath"
           /\ dev' = dev
           /\ cwdIno' = cwdIno
           /\ openFiles' = openFiles]_vars

\* truncate of the symbolic link "/s" has thrown InvalidPath.
TruncateOfLinkRefused ==
  /\ lastOp.op = "truncate" /\ lastOp.path = PathS /\ lastOp.err = "InvalidPath"
  /\ EntryOf(dev, 0, <<115>>) # -1
  /\ getDescriptor(dev, EntryOf(dev, 0, <<115>>)).type = "symlink"

\* C22: a read or a write that ends after the last byte of the file fails
\* with OutOfBounds and leaves the device as it was, and no write, thrown or
\* not, changes the size stored in the inode of the file.
OutOfBoundsChangesNothing ==
  [][(lastOp'.op \in {"read", "write"} /\ Opened(openFiles, lastOp'.fd)) =>
       \A file \in {getDescriptor(dev, openFiles[lastOp'.fd])} :
         /\ (lastOp'.op = "read" /\ lastOp'.offset + lastOp'.size > file.size) =>
              (lastOp'.err = "OutOfBounds" /\ dev' = dev)
         /\ (lastOp'.op = "write" /\ lastOp'.offset + Len(lastOp'.buffer) > file.size) =>
              (lastOp'.err = "OutOfBounds" /\ dev' = dev)
         /\ lastOp'.op = "write" =>
              getDescriptor(dev', openFiles[lastOp'.fd]).size = file.size]_vars

\* write(h, 10, buffer) with a buffer of 7 bytes on a file of 12 bytes has
\* thrown OutOfBounds.
WritePastEndRefused ==
  /\ lastOp.op = "write" /\ lastOp.offset = 10 /\ lastOp.err = "OutOfBounds"
  /\ Opened(openFiles, lastOp.fd)
  /\ getDescriptor(dev, openFiles[lastOp.fd]).type = "regular"
  /\ getDescriptor(dev, openFiles[lastOp.fd]).size = SizeSmall

\* C23: a read or a write through a handle that open has not returned, or
\* that has been closed, fails with InvalidArgument and changes nothing; a
\* close leaves every other handle open on the file it was opened on, and a
\* read through it gives what it gave before the close.
ClosedHandleIsInvalidArgument ==
  [][/\ (lastOp'.op \in {"read", "write"} /\ ~Opened(openFiles, lastOp'.fd)) =>
          /\ lastOp'.err = "InvalidArgument"
          /\ dev' = dev /\ openFiles' = openFiles /\ cwdIno' = cwdIno
     /\ lastOp'.op = "close" =>
          /\ dev' = dev
          /\ \A h \in (DOMAIN openFiles) \ {lastOp'.fd} :
               /\ Opened(openFiles, h) => Opened(openFiles', h)
               /\ Opened(openFiles, h) => openFiles'[h] = openFiles[h]
               /\ read(dev', openFiles', h, 0, 0) = read(dev, openFiles, h, 0, 0)]_vars

\* A read through the closed handle 1 has thrown InvalidArgument while
\* handle 2 is open on the same file.
ReadThroughClosedHandle ==
  /\ lastOp.op = "read" /\ lastOp.fd = 1 /\ lastOp.err = "InvalidArgument"
  /\ nextFd > 2
  /\ ~Opened(openFiles, 1)
  /\ Opened(openFiles, 2)
  /\ read(dev, openFiles, 2, 0, 0).err = ""

\* C24: a truncate to more than the size of the file that fails throws
\* NotEnoughMemory, and the size stored in the inode is then the size it
\* had before the call.
FailedGrowthIsNotEnoughMemory ==
  [][lastOp'.op = "truncate" =>
       \A found \in {lookUp(dev, cwdIno, lastOp'.path)} :
         (/\ found.err = "" /\ found.inode.type = "regular"
          /\ found.inode.size < lastOp'.size
          /\ lastOp'.err # "") =>
           /\ lastOp'.err = "NotEnoughMemory"
           /\ getDescriptor(dev', found.inode.ino).size = found.inode.size]_vars

RECURSIVE Names(_)
\* The names of a path, in order.
Names(path) ==
  IF path = <<>> THEN <<>>
  ELSE IF Head(path) = Slash THEN Names(Tail(path))
  ELSE LET end == IF \E i \in 1..Len(path) : path[i] = Slash
                  THEN (CHOOSE i \in 1..Len(path) :
                          path[i] = Slash /\ \A j \in 1..(i - 1) : path[j] # Slash) - 1
                  ELSE Len(path)
       IN <<SubSeq(path, 1, end)>> \o Names(SubSeq(path, end + 1, Len(path)))

\* names lead from the root to inode ino through directories alone.
PlainDirectory(d, names, ino) ==
  /\ Walk(d, 0, names) = ino
  /\ \A k \in 0..Len(names) :
       /\ Walk(d, 0, SubSeq(names, 1, k)) # -1
       /\ getDescriptor(d, Walk(d, 0, SubSeq(names, 1, k))).type = "directory"

\* C25: pwd returns: it returns "/" when the current directory is the root,
\* and after cd(p) to a directory that the names of p lead to from the root
\* through directories alone it returns the path of these names, which
\* lookUp resolves from the root to the inode of the current directory.
PwdNamesCwd ==
  [][/\ (lastOp'.op = "pwd" /\ cwdIno = 0) =>
          (lastOp'.err = "" /\ lastOp'.data = PathRoot)
     /\ (lastOp'.op = "cd" /\ lastOp'.err = "" /\ Head(lastOp'.path) = Slash
         /\ PlainDirectory(dev', Names(lastOp'.path), cwdIno')) =>
          \A r \in {pwd(dev', cwdIno')} :
            /\ r.err = ""
            /\ r.path = (IF cwdIno' = 0 THEN PathRoot ELSE lastOp'.path)
            /\ \A found \in {lookUp(dev', 0, r.path)} :
                 found.err = "" /\ found.inode.ino = cwdIno']_vars

\* cd("/a/b/c") is done and pwd returns "/a/b/c".
PwdInThirdLevel ==
  /\ lastOp.op = "pwd" /\ lastOp.err = "" /\ lastOp.data = PathABC
  /\ cwdIno = Walk(dev, 0, Names(PathABC))
  /\ cwdIno \notin {-1, 0}

\* C26: getDescriptor of a number that is not one of the descriptors
\* 0 .. N - 1 of the device throws DescriptorNotFound.
OutsideTableIsDescriptorNotFound ==
  [][(lastOp'.op = "getDescriptor" /\ lastOp'.ino \notin INos(dev)) =>
       lastOp'.err = "DescriptorNotFound"]_vars

\* The record of inode k decoded from where the byte offset
\* ceil(BLOCK_COUNT / 8) + 4 + k * INODE_SIZE lies: block floor(offset / BLOCK_SIZE),
\* position offset mod BLOCK_SIZE.
RecordAtOffset(d, k) ==
  [deserializeInode(subarray(d[FloorDiv(StartAddress + k * INODE_SIZE, BLOCK_SIZE)],
                             (StartAddress + k * INODE_SIZE) % BLOCK_SIZE,
                             ((StartAddress + k * INODE_SIZE) % BLOCK_SIZE) + INODE_SIZE))
     EXCEPT !.ino = k]

\* C27: the record of every inode 0 .. N - 1 is read and written in block
\* floor(offset / BLOCK_SIZE) at position offset mod BLOCK_SIZE, where offset is
\* ceil(BLOCK_COUNT / 8) + 4 + k * INODE_SIZE; that block is one of the blocks
\* mkfs reserves, and it is not the block the search for a free block returns.
INodeRecordsInMetadata ==
  formatted =>
    \A k \in INos(dev) :
      /\ getDescriptor(dev, k) = RecordAtOffset(dev, k)
      /\ InodeBlockAddress(k) = FloorDiv(StartAddress + k * INODE_SIZE, BLOCK_SIZE)
      /\ InodeBlockAddress(k) \in MetadataBlocks(dev)
      /\ _getFreeBlockAddress(dev) # InodeBlockAddress(k)

\* C28: in every inode stored as REGULAR, DIRECTORY or SYMLINK, a direct slot
\* at or after ceil(size / BLOCK_SIZE) holds NAN_BLOCK_ADDRESS, and a direct
\* slot before it holds ZERO_BLOCK_ADDRESS or the address of a block that the
\* bitmap marks and that is not one of the metadata blocks.
DirectSlotsMatchSize ==
  formatted =>
    \A ino \in INos(dev) :
      \A inode \in {getDescriptor(dev, ino)} :
        inode.type \in {"regular", "directory", "symlink"} =>
          \A k \in 0..(INODE_STRAIGHT_LINKS_COUNT - 1) :
            IF k >= CeilDiv(inode.size, BLOCK_SIZE)
            THEN inode.straightLinks[k + 1] = NAN_BLOCK_ADDRESS
            ELSE \/ inode.straightLinks[k + 1] = ZERO_BLOCK_ADDRESS
                 \/ /\ inode.straightLinks[k + 1] \in UsedBlocks(dev)
                    /\ inode.straightLinks[k + 1] \notin MetadataBlocks(dev)

\* The logical blocks of the file from block first on are all holes.
HolesFrom(d, inode, first) ==
  \A blocks \in {_getBlocks(d, inode)} :
    \A k \in (first + 1)..Len(blocks) : blocks[k] = ZERO_BLOCK_ADDRESS

\* C29: a truncate to less than the size of a file whose removed blocks and
\* new last block are holes returns, stores the new size and leaves the
\* bitmap as it was.
ShrinkOverHolesSucceeds ==
  [][lastOp'.op = "truncate" =>
       \A found \in {lookUp(dev, cwdIno, lastOp'.path)} :
         (/\ found.err = "" /\ found.inode.type = "regular"
          /\ lastOp'.size < found.inode.size
          /\ HolesFrom(dev, found.inode, Max(CeilDiv(lastOp'.size, BLOCK_SIZE) - 1, 0))) =>
           /\ lastOp'.err = ""
           /\ getDescriptor(dev', found.inode.ino).size = lastOp'.size
           /\ UsedBlocks(dev') = UsedBlocks(dev)]_vars

\* C30: a truncate that grows a file marks no block for its data and stores
\* ZERO_BLOCK_ADDRESS in the slots it adds, and a write turns a hole into a
\* block only where the hole holds bytes of [offset, offset + length): not
\* the block after a write that ends on a block boundary, and none when the
\* buffer is empty.
BlocksAllocatedLazily ==
  [][/\ lastOp'.op = "truncate" =>
          \A found \in {lookUp(dev, cwdIno, lastOp'.path)} :
            (/\ found.err = "" /\ found.inode.type = "regular"
             /\ found.inode.size < lastOp'.size /\ lastOp'.err = "") =>
              \A after \in {getDescriptor(dev', found.inode.ino)} :
                /\ UsedBlocks(dev') \ UsedBlocks(dev)
                     \subseteq {after.singleIndirect, after.doubleIndirect}
                /\ \A blocks \in {_getBlocks(dev', after)} :
                     /\ Len(blocks) >= CeilDiv(lastOp'.size, BLOCK_SIZE)
                     /\ \A k \in (CeilDiv(found.inode.size, BLOCK_SIZE) + 1)
                                   ..CeilDiv(lastOp'.size, BLOCK_SIZE) :
                          blocks[k] = ZERO_BLOCK_ADDRESS
     /\ (lastOp'.op = "write" /\ Opened(openFiles, lastOp'.fd)) =>
          \A ino \in {openFiles[lastOp'.fd]} :
            \A before \in {_getBlocks(dev, getDescriptor(dev, ino))} :
              \A after \in {_getBlocks(dev', getDescriptor(dev', ino))} :
                \A k \in 1..Len(before) :
                  (before[k] = ZERO_BLOCK_ADDRESS /\ k <= Len(after)
                   /\ after[k] # ZERO_BLOCK_ADDRESS) =>
                    /\ (k - 1) * BLOCK_SIZE < lastOp'.offset + Len(lastOp'.buffer)
                    /\ lastOp'.offset < k * BLOCK_SIZE
                    /\ Len(lastOp'.buffer) > 0]_vars

\* The blocks whose bitmap bit is clear.
FreeBlocks(d) == (0..(BLOCK_COUNT - 1)) \ UsedBlocks(d)

\* C31: the free-block search returns the lowest block index whose bitmap
\* bit is clear, and when no bit is clear a growth of a regular file that
\* needs an indirect block fails with NotEnoughMemory and leaves the bitmap
\* as it was.
FreeSearchLowestOrNotEnoughMemory ==
  [][formatted =>
       \A free \in {FreeBlocks(dev)} :
         /\ free # {} =>
              \A address \in {_getFreeBlockAddress(dev)} :
                address \in free /\ \A other \in free : address <= other
         /\ (free = {} /\ lastOp'.op = "truncate") =>
              \A found \in {lookUp(dev, cwdIno, lastOp'.path)} :
                (/\ found.err = "" /\ found.inode.type = "regular"
                 /\ found.inode.size < lastOp'.size
                 /\ CeilDiv(lastOp'.size, BLOCK_SIZE) > INODE_STRAIGHT_LINKS_COUNT
                 /\ found.inode.singleIndirect = NAN_BLOCK_ADDRESS) =>
                  /\ lastOp'.err = "NotEnoughMemory"
                  /\ UsedBlocks(dev') = UsedBlocks(dev)]_vars

\* The bytes of logical block k of a file as the driver reads them: the
\* block that _getBlocks yields for k, zeros for a hole.
LogicalBlock(d, inode, k) ==
  Bind(_getBlocks(d, inode), LAMBDA blocks :
    IF k + 1 > Len(blocks) \/ ~IsNum(blocks[k + 1]) THEN <<>>
    ELSE IF ~Real(blocks[k + 1]) THEN Zeros(BLOCK_SIZE)
    ELSE d[blocks[k + 1]])

\* Slot slot of an indirect block: its ADDRESS_SIZE bytes.
SlotBytes(block, slot) == SubSeq(block, slot * ADDRESS_SIZE + 1, (slot + 1) * ADDRESS_SIZE)

\* C32: in a file of more than D blocks, a write that lies inside logical
\* block k, D <= k < D + ADDRESSES_IN_BLOCK, succeeds, a read of the same
\* range returns the written bytes, every other logical block reads as
\* before, and in the single-indirect block only slot k - D changes, to the
\* address of a block that the bitmap marks.
SingleIndirectSlotMapsBlock ==
  [][(lastOp'.op = "write" /\ Opened(openFiles, lastOp'.fd)) =>
       \A file \in {getDescriptor(dev, openFiles[lastOp'.fd])} :
       \A k \in {FloorDiv(lastOp'.offset, BLOCK_SIZE)} :
         (/\ file.type = "regular"
          /\ CeilDiv(file.size, BLOCK_SIZE) > INODE_STRAIGHT_LINKS_COUNT
          /\ INODE_STRAIGHT_LINKS_COUNT <= k
          /\ k < INODE_STRAIGHT_LINKS_COUNT + ADDRESSES_IN_BLOCK
          /\ Len(lastOp'.buffer) > 0
          /\ lastOp'.offset + Len(lastOp'.buffer) < (k + 1) * BLOCK_SIZE
          /\ lastOp'.offset + Len(lastOp'.buffer) <= file.size) =>
           /\ lastOp'.err = ""
           /\ read(dev', openFiles', lastOp'.fd, lastOp'.offset, Len(lastOp'.buffer))
                = [err |-> "", data |-> lastOp'.buffer]
           /\ \A after \in {getDescriptor(dev', file.ino)} :
                /\ \A j \in 0..(CeilDiv(file.size, BLOCK_SIZE) - 1) :
                     j # k => LogicalBlock(dev', after, j) = LogicalBlock(dev, file, j)
                /\ after.singleIndirect = file.singleIndirect
                /\ Real(file.singleIndirect)
                /\ \A slot \in 0..(ADDRESSES_IN_BLOCK - 1) :
                     IF slot = k - INODE_STRAIGHT_LINKS_COUNT
                     THEN \A address \in
                            {deserializeAddress(SlotBytes(dev'[file.singleIndirect], slot))} :
                            /\ Real(address)
                            /\ address \in UsedBlocks(dev')
                            /\ address \notin MetadataBlocks(dev')
                            /\ address # file.singleIndirect
                     ELSE SlotBytes(dev'[file.singleIndirect], slot)
                            = SlotBytes(dev[file.singleIndirect], slot)]_vars

\* C33: every inode of the table that is in use has singleIndirect equal to
\* NAN_BLOCK_ADDRESS exactly when it has at most D blocks, and doubleIndirect
\* equal to NAN_BLOCK_ADDRESS exactly when it has at most
\* D + ADDRESSES_IN_BLOCK blocks.
IndirectFieldsMatchSize ==
  formatted =>
    \A table \in {INodeTable(dev)} :
      \A ino \in DOMAIN table :
        (table[ino].type # "unused" /\ IsNum(table[ino].size)) =>
          \A blocks \in {CeilDiv(table[ino].size, BLOCK_SIZE)} :
            /\ (table[ino].singleIndirect = NAN_BLOCK_ADDRESS)
                 <=> (blocks <= INODE_STRAIGHT_LINKS_COUNT)
            /\ (table[ino].doubleIndirect = NAN_BLOCK_ADDRESS)
                 <=> (blocks <= INODE_STRAIGHT_LINKS_COUNT + ADDRESSES_IN_BLOCK)

\* C34: the current working directory is an inode of type DIRECTORY that the
\* tree still holds: no cd and no rmdir leaves cwdIno at a regular file, a
\* symbolic link, an unused inode or a directory that no name leads to.
CwdIsLinkedDirectory ==
  formatted =>
    \A table \in {INodeTable(dev)} :
      /\ cwdIno \in DOMAIN table
      /\ table[cwdIno].type = "directory"
      /\ cwdIno \in Tree(Listing(dev, table))

\* The singleIndirect and doubleIndirect fields as serializeInode lays them
\* out in the stored record: one address after the D direct slots, the other
\* after it.
StoredIndirects(d, ino) ==
  Bind(subarray(d[InodeBlockAddress(ino)], InodeAddressInBlock(ino),
                InodeAddressInBlock(ino) + INODE_SIZE), LAMBDA record :
    LET first == INODE_INO_SIZE + INODE_TYPE_SIZE + INODE_REFS_SIZE + INODE_SIZE_SIZE
                   + INODE_STRAIGHT_LINKS_COUNT * ADDRESS_SIZE
    IN << deserializeAddress(subarray(record, first, first + ADDRESS_SIZE)),
          deserializeAddress(subarray(record, first + ADDRESS_SIZE,
                                      first + 2 * ADDRESS_SIZE)) >>)

\* The ADDRESSES_IN_BLOCK slots of an indirect block, <<>> when address names
\* no block.
SlotsOf(d, address) ==
  IF Real(address) /\ address \in DOMAIN d
  THEN [slot \in 1..ADDRESSES_IN_BLOCK |-> deserializeAddress(SlotBytes(d[address], slot - 1))]
  ELSE <<>>

RECURSIVE InnerSlots(_, _)
\* The slots of the single-indirect blocks that the slots outer name.
InnerSlots(d, outer) ==
  IF outer = <<>> THEN <<>>
  ELSE Bind(SlotsOf(d, Head(outer)), LAMBDA slots :
         slots \o InnerSlots(d, Tail(outer)))

\* Every address of the extent map of inode ino, place by place: direct
\* slots, the two indirect fields, the slots of the indirect blocks.
ExtentPlaces(d, ino) ==
  Bind(StoredIndirects(d, ino), LAMBDA fields :
  Bind(SlotsOf(d, fields[2]), LAMBDA outer :
    getDescriptor(d, ino).straightLinks \o fields
      \o SlotsOf(d, fields[1]) \o outer \o InnerSlots(d, outer)))

RECURSIVE AllPlaces(_, _)
\* The places of every inode from ino on that is in use.
AllPlaces(d, ino) ==
  IF ino >= _getN(d) THEN <<>>
  ELSE Bind(IF getDescriptor(d, ino).type = "unused" THEN <<>> ELSE ExtentPlaces(d, ino),
            LAMBDA places : places \o AllPlaces(d, ino + 1))

\* C35: no block address is held by two places of the extent maps of the
\* inodes in use, and none of the addresses they hold is a metadata block.
ExtentsDisjoint ==
  formatted =>
    \A places \in {AllPlaces(dev, 0)} :
      \A i \in 1..Len(places) :
        Real(places[i]) =>
          /\ places[i] \notin MetadataBlocks(dev)
          /\ \A j \in 1..Len(places) : j # i => places[j] # places[i]

\* The form of a name that a directory entry stores: the bytes serializeDentry
\* puts in the filename field.
StoredName(filename) == subarray(serializeDentry(Dentry(filename, 0)), 0, DENTRY_SIZE - N_SIZE)

\* The filename fields of the entries of a directory, in order.
StoredNames(d, dir) ==
  Bind(_read(d, dir, 0, dir.size), LAMBDA r :
    IF r.err # "" THEN <<>>
    ELSE [k \in 1..(Len(r.data) \div DENTRY_SIZE) |->
            subarray(r.data, (k - 1) * DENTRY_SIZE, (k - 1) * DENTRY_SIZE + DENTRY_SIZE - N_SIZE)])

\* C36: no directory holds two entries with the same stored filename, and a
\* create, link, mkdir or symlink of a name whose stored form is the stored
\* name of an entry of the directory fails with FileAlreadyExist, also when
\* the name is longer than the filename field.
StoredNamesUnique ==
  [][/\ \A table \in {INodeTable(dev')} :
          \A ino \in DOMAIN table :
            table[ino].type = "directory" =>
              \A names \in {StoredNames(dev', table[ino])} :
                \A i, j \in 1..Len(names) : i # j => names[i] # names[j]
     /\ lastOp'.op \in {"create", "link", "mkdir", "symlink"} =>
          \A target \in {IF lastOp'.op = "link" THEN lastOp'.path2 ELSE lastOp'.path} :
          \A dir \in {lookUp(dev, cwdIno, _getDirPath(target))} :
            (/\ dir.err = "" /\ dir.inode.type = "directory"
             /\ lastOp'.op = "link" =>
                  \A file \in {lookUp(dev, cwdIno, lastOp'.path)} :
                    file.err = "" /\ file.inode.type = "regular"
             /\ \E k \in DOMAIN StoredNames(dev, dir.inode) :
                  StoredNames(dev, dir.inode)[k] = StoredName(_getFileName(target))) =>
              lastOp'.err = "FileAlreadyExist"]_vars

\* C37: the inode that deserializeInode reads from the bytes serializeInode
\* made of an inode with D direct slots is that inode, field by field,
\* whatever singleIndirect and doubleIndirect are.
InodeRoundTrip ==
  lastOp.op = "deserializeInode" =>
    /\ lastOp.output.ino = lastOp.input.ino
    /\ lastOp.output.type = lastOp.input.type
    /\ lastOp.output.refs = lastOp.input.refs
    /\ lastOp.output.size = lastOp.input.size
    /\ lastOp.output.straightLinks = lastOp.input.straightLinks
    /\ lastOp.output.singleIndirect = lastOp.input.singleIndirect
    /\ lastOp.output.doubleIndirect = lastOp.input.doubleIndirect

\* C38: the entry that deserializeDentry reads from the bytes serializeDentry
\* made of an entry whose name has 1 to DENTRY_SIZE - N_SIZE characters is
\* that entry, also when the name fills the field.
DentryRoundTrip ==
  lastOp.op = "deserializeDentry" =>
    /\ lastOp.output.fileName = lastOp.input.fileName
    /\ lastOp.output.ino = lastOp.input.ino

====
